---- MODULE Spec2Model ----
(***************************************************************************)
(* Model of the Adafruit Motor Shield V2 user-space driver                 *)
(* (src/Adafruit/MotorShield.cpp): the PCA9685 channel registers of one    *)
(* board, its two stepper slots, the coil sequencer StepperMotor::onestep, *)
(* the speed / microstep configuration calls, the step scheduler, the     *)
(* four DC motor slots, the registry the signal handler walks, and the     *)
(* retry loop around every I2C transfer.                                   *)
(*                                                                         *)
(* A channel write that the bus carries lands in the channel's (on, off)   *)
(* register pair.  The stepper scenarios run on a healthy bus; the board   *)
(* scenario lets transfers fail.                                           *)
(***************************************************************************)
EXTENDS Integers, Sequences, FiniteSets, TLC

VARIABLES
    initd,      \* MotorShield::initd
    chan,       \* PCA9685 channel registers: channel 0..15 -> <<on, off>>
    steppers,   \* MotorShield::steppers[2], one record of fields per slot
    jobs,       \* the step sequence each thread is running, if any
    last,       \* the last step taken: its arguments, pre-state and result
    rt,         \* progress of a forward-then-backward run of onestep calls
    bus,        \* the I2C bus: how many transfers succeed, then how many fail
    dcmotors,   \* MotorShield::dcmotors[4], one record of fields per slot
    lib_steppers,   \* the registry of stepper handles handed out
    lib_dcmotors,   \* the registry of DC motor handles handed out
    hook            \* the SIGINT hook, handler_lock and the handler's progress

vars == <<initd, chan, steppers, jobs, last, rt, bus, dcmotors, lib_steppers, lib_dcmotors,
          hook>>

(***************************************************************************)
(* Quarter-sine microstep curves, n + 1 points each.  The C arrays are     *)
(* 0-based: C index i is element i + 1 here.                               *)
(***************************************************************************)
microstepcurve8 ==
    <<
       0, 798, 1567, 2275, 2895, 3404, 3783, 4016, 4095
    >>

microstepcurve16 ==
    <<
       0, 401, 798, 1188, 1567, 1930, 2275, 2597, 2895, 3165, 3404, 3611,
       3783, 3918, 4016, 4075, 4095
    >>

microstepcurve32 ==
    <<
       0, 200, 401, 600, 798, 995, 1188, 1379, 1567, 1750, 1930, 2105,
       2275, 2439, 2597, 2750, 2895, 3034, 3165, 3289, 3404, 3512, 3611, 3701,
       3783, 3855, 3918, 3972, 4016, 4050, 4075, 4090, 4095
    >>

microstepcurve64 ==
    <<
       0, 100, 200, 301, 401, 501, 600, 700, 798, 897, 995, 1092,
       1188, 1284, 1379, 1473, 1567, 1659, 1750, 1841, 1930, 2018, 2105, 2190,
       2275, 2357, 2439, 2519, 2597, 2674, 2750, 2823, 2895, 2965, 3034, 3100,
       3165, 3228, 3289, 3348, 3404, 3459, 3512, 3563, 3611, 3657, 3701, 3743,
       3783, 3820, 3855, 3888, 3918, 3946, 3972, 3995, 4016, 4034, 4050, 4064,
       4075, 4083, 4090, 4093, 4095
    >>

microstepcurve128 ==
    <<
       0, 50, 100, 150, 200, 251, 301, 351, 401, 451, 501, 551,
       600, 650, 700, 749, 798, 848, 897, 946, 995, 1043, 1092, 1140,
       1188, 1236, 1284, 1332, 1379, 1426, 1473, 1520, 1567, 1613, 1659, 1705,
       1750, 1796, 1841, 1885, 1930, 1974, 2018, 2061, 2105, 2148, 2190, 2233,
       2275, 2316, 2357, 2398, 2439, 2479, 2519, 2558, 2597, 2636, 2674, 2712,
       2750, 2787, 2823, 2859, 2895, 2930, 2965, 3000, 3034, 3067, 3100, 3133,
       3165, 3197, 3228, 3258, 3289, 3318, 3348, 3376, 3404, 3432, 3459, 3486,
       3512, 3537, 3563, 3587, 3611, 3634, 3657, 3680, 3701, 3723, 3743, 3763,
       3783, 3802, 3820, 3838, 3855, 3872, 3888, 3903, 3918, 3932, 3946, 3959,
       3972, 3984, 3995, 4006, 4016, 4025, 4034, 4042, 4050, 4057, 4064, 4070,
       4075, 4079, 4083, 4087, 4090, 4092, 4093, 4094, 4095
    >>

microstepcurve256 ==
    <<
       0, 25, 50, 75, 100, 125, 150, 175, 200, 226, 251, 276,
       301, 326, 351, 376, 401, 426, 451, 476, 501, 526, 551, 575,
       600, 625, 650, 675, 700, 724, 749, 774, 798, 823, 848, 872,
       897, 921, 946, 970, 995, 1019, 1043, 1067, 1092, 1116, 1140, 1164,
       1188, 1212, 1236, 1260, 1284, 1308, 1332, 1355, 1379, 1403, 1426, 1450,
       1473, 1497, 1520, 1543, 1567, 1590, 1613, 1636, 1659, 1682, 1705, 1728,
       1750, 1773, 1796, 1818, 1841, 1863, 1885, 1908, 1930, 1952, 1974, 1996,
       2018, 2040, 2061, 2083, 2105, 2126, 2148, 2169, 2190, 2212, 2233, 2254,
       2275, 2295, 2316, 2337, 2357, 2378, 2398, 2419, 2439, 2459, 2479, 2499,
       2519, 2539, 2558, 2578, 2597, 2617, 2636, 2655, 2674, 2693, 2712, 2731,
       2750, 2768, 2787, 2805, 2823, 2841, 2859, 2877, 2895, 2913, 2930, 2948,
       2965, 2983, 3000, 3017, 3034, 3051, 3067, 3084, 3100, 3117, 3133, 3149,
       3165, 3181, 3197, 3212, 3228, 3243, 3258, 3274, 3289, 3304, 3318, 3333,
       3348, 3362, 3376, 3390, 3404, 3418, 3432, 3446, 3459, 3473, 3486, 3499,
       3512, 3525, 3537, 3550, 3563, 3575, 3587, 3599, 3611, 3623, 3634, 3646,
       3657, 3668, 3680, 3691, 3701, 3712, 3723, 3733, 3743, 3753, 3763, 3773,
       3783, 3792, 3802, 3811, 3820, 3829, 3838, 3847, 3855, 3864, 3872, 3880,
       3888, 3896, 3903, 3911, 3918, 3925, 3932, 3939, 3946, 3953, 3959, 3966,
       3972, 3978, 3984, 3989, 3995, 4000, 4006, 4011, 4016, 4021, 4025, 4030,
       4034, 4038, 4042, 4046, 4050, 4054, 4057, 4061, 4064, 4067, 4070, 4072,
       4075, 4077, 4079, 4081, 4083, 4085, 4087, 4088, 4090, 4091, 4092, 4093,
       4093, 4094, 4094, 4094, 4095
    >>

microstepcurve512 ==
    <<
       0, 12, 25, 37, 50, 62, 75, 87, 100, 113, 125, 138,
       150, 163, 175, 188, 200, 213, 226, 238, 251, 263, 276, 288,
       301, 313, 326, 338, 351, 363, 376, 388, 401, 413, 426, 438,
       451, 463, 476, 488, 501, 513, 526, 538, 551, 563, 575, 588,
       600, 613, 625, 638, 650, 662, 675, 687, 700, 712, 724, 737,
       749, 761, 774, 786, 798, 811, 823, 835, 848, 860, 872, 884,
       897, 909, 921, 933, 946, 958, 970, 982, 995, 1007, 1019, 1031,
       1043, 1055, 1067, 1080, 1092, 1104, 1116, 1128, 1140, 1152, 1164, 1176,
       1188, 1200, 1212, 1224, 1236, 1248, 1260, 1272, 1284, 1296, 1308, 1320,
       1332, 1344, 1355, 1367, 1379, 1391, 1403, 1414, 1426, 1438, 1450, 1462,
       1473, 1485, 1497, 1508, 1520, 1532, 1543, 1555, 1567, 1578, 1590, 1601,
       1613, 1624, 1636, 1647, 1659, 1670, 1682, 1693, 1705, 1716, 1728, 1739,
       1750, 1762, 1773, 1784, 1796, 1807, 1818, 1829, 1841, 1852, 1863, 1874,
       1885, 1897, 1908, 1919, 1930, 1941, 1952, 1963, 1974, 1985, 1996, 2007,
       2018, 2029, 2040, 2051, 2061, 2072, 2083, 2094, 2105, 2116, 2126, 2137,
       2148, 2158, 2169, 2180, 2190, 2201, 2212, 2222, 2233, 2243, 2254, 2264,
       2275, 2285, 2295, 2306, 2316, 2327, 2337, 2347, 2357, 2368, 2378, 2388,
       2398, 2409, 2419, 2429, 2439, 2449, 2459, 2469, 2479, 2489, 2499, 2509,
       2519, 2529, 2539, 2548, 2558, 2568, 2578, 2588, 2597, 2607, 2617, 2626,
       2636, 2646, 2655, 2665, 2674, 2684, 2693, 2703, 2712, 2721, 2731, 2740,
       2750, 2759, 2768, 2777, 2787, 2796, 2805, 2814, 2823, 2832, 2841, 2850,
       2859, 2868, 2877, 2886, 2895, 2904, 2913, 2922, 2930, 2939, 2948, 2957,
       2965, 2974, 2983, 2991, 3000, 3008, 3017, 3025, 3034, 3042, 3051, 3059,
       3067, 3076, 3084, 3092, 3100, 3108, 3117, 3125, 3133, 3141, 3149, 3157,
       3165, 3173, 3181, 3189, 3197, 3204, 3212, 3220, 3228, 3235, 3243, 3251,
       3258, 3266, 3274, 3281, 3289, 3296, 3304, 3311, 3318, 3326, 3333, 3340,
       3348, 3355, 3362, 3369, 3376, 3383, 3390, 3397, 3404, 3411, 3418, 3425,
       3432, 3439, 3446, 3452, 3459, 3466, 3473, 3479, 3486, 3492, 3499, 3505,
       3512, 3518, 3525, 3531, 3537, 3544, 3550, 3556, 3563, 3569, 3575, 3581,
       3587, 3593, 3599, 3605, 3611, 3617, 3623, 3629, 3634, 3640, 3646, 3652,
       3657, 3663, 3668, 3674, 3680, 3685, 3691, 3696, 3701, 3707, 3712, 3717,
       3723, 3728, 3733, 3738, 3743, 3748, 3753, 3758, 3763, 3768, 3773, 3778,
       3783, 3788, 3792, 3797, 3802, 3806, 3811, 3816, 3820, 3825, 3829, 3834,
       3838, 3842, 3847, 3851, 3855, 3859, 3864, 3868, 3872, 3876, 3880, 3884,
       3888, 3892, 3896, 3899, 3903, 3907, 3911, 3915, 3918, 3922, 3925, 3929,
       3932, 3936, 3939, 3943, 3946, 3949, 3953, 3956, 3959, 3962, 3966, 3969,
       3972, 3975, 3978, 3981, 3984, 3987, 3989, 3992, 3995, 3998, 4000, 4003,
       4006, 4008, 4011, 4013, 4016, 4018, 4021, 4023, 4025, 4028, 4030, 4032,
       4034, 4036, 4038, 4040, 4042, 4044, 4046, 4048, 4050, 4052, 4054, 4056,
       4057, 4059, 4061, 4062, 4064, 4065, 4067, 4068, 4070, 4071, 4072, 4074,
       4075, 4076, 4077, 4078, 4079, 4080, 4081, 4082, 4083, 4084, 4085, 4086,
       4087, 4088, 4088, 4089, 4090, 4090, 4091, 4091, 4092, 4092, 4093, 4093,
       4093, 4094, 4094, 4094, 4094, 4094, 4094, 4094, 4095
    >>


(***************************************************************************)
(* Types and widths                                                        *)
(***************************************************************************)
\* currentstep is an unsigned 16-bit field: it wraps modulo 2^16.
Wrap16 == 65536

U16(x) == (x + Wrap16) % Wrap16

\* The return type of onestep is uint8_t.
Wrap8 == 256

U8(x) == (x + Wrap8) % Wrap8

Styles == {"SINGLE", "DOUBLE", "INTERLEAVE", "MICROSTEP"}

Dirs == {"FORWARD", "BACKWARD"}

\* The MicroSteps values the MCASE switch of getStepper / setStep handles.
SupportedSteps == {8, 16, 32, 64, 128, 256, 512}

\* A MicroSteps argument outside the enumeration (reaches the default branch).
BadSteps == {12}

\* The table a microstepcurve pointer refers to, named by its divisor.
CurveOf(n) ==
    CASE n = 8   -> microstepcurve8
      [] n = 16  -> microstepcurve16
      [] n = 32  -> microstepcurve32
      [] n = 64  -> microstepcurve64
      [] n = 128 -> microstepcurve128
      [] n = 256 -> microstepcurve256
      [] n = 512 -> microstepcurve512

\* microstepcurve[i] with the C array's 0-based index.
CurveAt(curve, i) == CurveOf(curve)[i + 1]

Slots == {0, 1}

Channels == 0 .. 15

LOW == <<0, 0>>

HIGH == <<4096, 0>>

(***************************************************************************)
(* PWM channel driver                                                      *)
(***************************************************************************)
\* MotorShield::setPWM(num, on, off): one register-block write.
setPWM3(c, num, on, off) == IF num \in Channels THEN [c EXCEPT ![num] = <<on, off>>] ELSE c

\* The register a channel write is addressed to: the first byte of the
\* transfer, uint8_t buf[0] = LED0_ON_L + 4 * num.
ChannelReg(num) == (6 + 4 * num) % 256

\* MotorShield::setPWM(pin, value): nothing before begin(), the always-on
\* sentinel above 4095.
setPWM(c, ok, pin, value) ==
    IF ~ok THEN c
    ELSE IF value > 4095 THEN setPWM3(c, pin, 4096, 0)
    ELSE setPWM3(c, pin, 0, value)

\* MotorShield::setPin(pin, value)
setPin(c, ok, pin, high) ==
    IF ~ok THEN c
    ELSE IF ~high THEN setPWM3(c, pin, 0, 0)
    ELSE setPWM3(c, pin, 4096, 0)

\* Channel assignment of a stepper slot (port - 1), fixed by getStepper.
PWMApin(s) == IF s = 0 THEN 8 ELSE 2

AIN2pin(s) == IF s = 0 THEN 9 ELSE 3

AIN1pin(s) == IF s = 0 THEN 10 ELSE 4

\* The PWMB pin of port 1 given to both ports.
PWMBpin_Shared(s) == 13

PWMBpin(s) == IF s = 0 THEN 13 ELSE 7

BIN2pin(s) == IF s = 0 THEN 12 ELSE 6

BIN1pin(s) == IF s = 0 THEN 11 ELSE 5

(***************************************************************************)
(* Coil sequencer: StepperMotor::onestep                                   *)
(***************************************************************************)
\* (currentstep / (microsteps / 2)) % 2
HalfIndexOdd(cs, M) == ((cs \div (M \div 2)) % 2) = 1

\* currentstep += d  or  currentstep -= d, stored back into 16 bits.
Advance(cs, dir, d) == U16(IF dir = "FORWARD" THEN cs + d ELSE cs - d)

\* StylePhase with the SINGLE test inverted: a half step from an even index.
StylePhase_SingleInverted(cs, M, dir, style) ==
    CASE style = "SINGLE" ->
            IF ~HalfIndexOdd(cs, M) THEN Advance(cs, dir, M \div 2)
            ELSE Advance(cs, dir, M)
      [] style = "DOUBLE" ->
            IF ~HalfIndexOdd(cs, M) THEN Advance(cs, dir, M \div 2)
            ELSE Advance(cs, dir, M)
      [] style = "INTERLEAVE" -> Advance(cs, dir, M \div 2)
      [] OTHER -> cs

\* StylePhase with INTERLEAVE taking a full step.
StylePhase_InterleaveFull(cs, M, dir, style) ==
    CASE style = "SINGLE" ->
            IF HalfIndexOdd(cs, M) THEN Advance(cs, dir, M \div 2)
            ELSE Advance(cs, dir, M)
      [] style = "DOUBLE" ->
            IF ~HalfIndexOdd(cs, M) THEN Advance(cs, dir, M \div 2)
            ELSE Advance(cs, dir, M)
      [] style = "INTERLEAVE" -> Advance(cs, dir, M)
      [] OTHER -> cs

\* The SINGLE / DOUBLE / INTERLEAVE branches.
StylePhase(cs, M, dir, style) ==
    CASE style = "SINGLE" ->
            IF HalfIndexOdd(cs, M) THEN Advance(cs, dir, M \div 2)
            ELSE Advance(cs, dir, M)
      [] style = "DOUBLE" ->
            IF ~HalfIndexOdd(cs, M) THEN Advance(cs, dir, M \div 2)
            ELSE Advance(cs, dir, M)
      [] style = "INTERLEAVE" -> Advance(cs, dir, M \div 2)
      [] OTHER -> cs

\* WrapPhase without the reduction.
WrapPhase_NoReduce(cs, M) == cs

\* currentstep += microsteps * 4; currentstep %= microsteps * 4;
WrapPhase(cs, M) == U16(cs + M * 4) % (M * 4)

\* MicroPhase that steps forward whatever the direction.
MicroPhase_ForwardOnly(cs, M, dir, style) ==
    IF style = "MICROSTEP" THEN WrapPhase(Advance(cs, "FORWARD", 1), M) ELSE cs

\* The phase part of the MICROSTEP branch.
MicroPhase(cs, M, dir, style) ==
    IF style = "MICROSTEP" THEN WrapPhase(Advance(cs, dir, 1), M) ELSE cs

\* currentstep after onestep(dir, style).
NextPhase(cs, M, dir, style) ==
    WrapPhase(MicroPhase(StylePhase(cs, M, dir, style), M, dir, style), M)

\* Ocr with the two coils exchanged.
Ocr_Swapped(p, M, curve, style) ==
    IF style # "MICROSTEP" THEN <<4095, 4095>>
    ELSE IF p < M
        THEN <<CurveAt(curve, p), CurveAt(curve, M - p)>>
    ELSE IF p >= M /\ p < M * 2
        THEN <<CurveAt(curve, M * 2 - p), CurveAt(curve, p - M)>>
    ELSE IF p >= M * 2 /\ p < M * 3
        THEN <<CurveAt(curve, p - M * 2), CurveAt(curve, M * 3 - p)>>
    ELSE IF p >= M * 3 /\ p < M * 4
        THEN <<CurveAt(curve, M * 4 - p), CurveAt(curve, p - M * 3)>>
    ELSE <<0, 0>>

\* Ocr with the second quadrant's coil-A index copied from the first.
Ocr_Quadrant1(p, M, curve, style) ==
    IF style # "MICROSTEP" THEN <<4095, 4095>>
    ELSE IF p < M
        THEN <<CurveAt(curve, M - p), CurveAt(curve, p)>>
    ELSE IF p >= M /\ p < M * 2
        THEN <<CurveAt(curve, M * 2 - p), CurveAt(curve, M * 2 - p)>>
    ELSE IF p >= M * 2 /\ p < M * 3
        THEN <<CurveAt(curve, M * 3 - p), CurveAt(curve, p - M * 2)>>
    ELSE IF p >= M * 3 /\ p < M * 4
        THEN <<CurveAt(curve, p - M * 3), CurveAt(curve, M * 4 - p)>>
    ELSE <<0, 0>>

\* <<ocra, ocrb>> for the new phase p.
Ocr(p, M, curve, style) ==
    IF style # "MICROSTEP" THEN <<4095, 4095>>
    ELSE IF p < M
        THEN <<CurveAt(curve, M - p), CurveAt(curve, p)>>
    ELSE IF p >= M /\ p < M * 2
        THEN <<CurveAt(curve, p - M), CurveAt(curve, M * 2 - p)>>
    ELSE IF p >= M * 2 /\ p < M * 3
        THEN <<CurveAt(curve, M * 3 - p), CurveAt(curve, p - M * 2)>>
    ELSE IF p >= M * 3 /\ p < M * 4
        THEN <<CurveAt(curve, p - M * 3), CurveAt(curve, M * 4 - p)>>
    ELSE <<0, 0>>

\* LatchBits with case 3 energizing coil 2 only.
LatchBits_Case3(p, M, style) ==
    IF style = "MICROSTEP"
    THEN (IF p < M THEN {0, 1} ELSE {})
         \cup (IF p >= M /\ p < M * 2 THEN {1, 2} ELSE {})
         \cup (IF p >= M * 2 /\ p < M * 3 THEN {2, 3} ELSE {})
         \cup (IF p >= M * 3 /\ p < M * 4 THEN {0, 3} ELSE {})
    ELSE LET k == p \div (M \div 2)
         IN  CASE k = 0 -> {0}
               [] k = 1 -> {0, 1}
               [] k = 2 -> {1}
               [] k = 3 -> {1}
               [] k = 4 -> {2}
               [] k = 5 -> {2, 3}
               [] k = 6 -> {3}
               [] k = 7 -> {0, 3}
               [] OTHER -> {}

\* latch_state as the set of its bits that are 1 (bit k has value 2^k).
LatchBits(p, M, style) ==
    IF style = "MICROSTEP"
    THEN (IF p < M THEN {0, 1} ELSE {})
         \cup (IF p >= M /\ p < M * 2 THEN {1, 2} ELSE {})
         \cup (IF p >= M * 2 /\ p < M * 3 THEN {2, 3} ELSE {})
         \cup (IF p >= M * 3 /\ p < M * 4 THEN {0, 3} ELSE {})
    ELSE LET k == p \div (M \div 2)
         IN  CASE k = 0 -> {0}
               [] k = 1 -> {0, 1}
               [] k = 2 -> {1}
               [] k = 3 -> {1, 2}
               [] k = 4 -> {2}
               [] k = 5 -> {2, 3}
               [] k = 6 -> {3}
               [] k = 7 -> {0, 3}
               [] OTHER -> {}

\* The value of latch_state.
LatchValue(bits) ==
    (IF 0 \in bits THEN 1 ELSE 0) + (IF 1 \in bits THEN 2 ELSE 0)
    + (IF 2 \in bits THEN 4 ELSE 0) + (IF 3 \in bits THEN 8 ELSE 0)

\* StepWrites with the AIN1 and AIN2 pins exchanged.
StepWrites_PinsSwapped(c, ok, s, o, bits) ==
    LET c1 == setPWM(c, ok, PWMApin(s), o[1])
        c2 == setPWM(c1, ok, PWMBpin(s), o[2])
        c3 == setPin(c2, ok, AIN1pin(s), 0 \in bits)
        c4 == setPin(c3, ok, BIN1pin(s), 1 \in bits)
        c5 == setPin(c4, ok, AIN2pin(s), 2 \in bits)
    IN  setPin(c5, ok, BIN2pin(s), 3 \in bits)

\* The six channel writes of onestep, in the order the code makes them.
StepWrites(c, ok, s, o, bits) ==
    LET c1 == setPWM(c, ok, PWMApin(s), o[1])
        c2 == setPWM(c1, ok, PWMBpin(s), o[2])
        c3 == setPin(c2, ok, AIN2pin(s), 0 \in bits)
        c4 == setPin(c3, ok, BIN1pin(s), 1 \in bits)
        c5 == setPin(c4, ok, AIN1pin(s), 2 \in bits)
    IN  setPin(c5, ok, BIN2pin(s), 3 \in bits)

\* The channels after each of the six writes with AIN1 written before AIN2.
StepStages_AIN1First(c, ok, s, o, bits) ==
    LET c1 == setPWM(c, ok, PWMApin(s), o[1])
        c2 == setPWM(c1, ok, PWMBpin(s), o[2])
        c3 == setPin(c2, ok, AIN1pin(s), 2 \in bits)
        c4 == setPin(c3, ok, BIN1pin(s), 1 \in bits)
        c5 == setPin(c4, ok, AIN2pin(s), 0 \in bits)
        c6 == setPin(c5, ok, BIN2pin(s), 3 \in bits)
    IN  <<c1, c2, c3, c4, c5, c6>>

\* The channels after each of the six writes of onestep: every write is a
\* transfer of its own, and the motor driver sees each of these states.
StepStages(c, ok, s, o, bits) ==
    LET c1 == setPWM(c, ok, PWMApin(s), o[1])
        c2 == setPWM(c1, ok, PWMBpin(s), o[2])
        c3 == setPin(c2, ok, AIN2pin(s), 0 \in bits)
        c4 == setPin(c3, ok, BIN1pin(s), 1 \in bits)
        c5 == setPin(c4, ok, AIN1pin(s), 2 \in bits)
        c6 == setPin(c5, ok, BIN2pin(s), 3 \in bits)
    IN  <<c1, c2, c3, c4, c5, c6>>

\* release() without the write to BIN2.
ReleaseWrites_BIN2Left(c, ok, s) ==
    LET c1 == setPin(c, ok, AIN1pin(s), FALSE)
        c2 == setPin(c1, ok, AIN2pin(s), FALSE)
        c3 == setPin(c2, ok, BIN1pin(s), FALSE)
        c5 == setPWM(c3, ok, PWMApin(s), 0)
    IN  setPWM(c5, ok, PWMBpin(s), 0)

\* The six channel writes of release().
ReleaseWrites(c, ok, s) ==
    LET c1 == setPin(c, ok, AIN1pin(s), FALSE)
        c2 == setPin(c1, ok, AIN2pin(s), FALSE)
        c3 == setPin(c2, ok, BIN1pin(s), FALSE)
        c4 == setPin(c3, ok, BIN2pin(s), FALSE)
        c5 == setPWM(c4, ok, PWMApin(s), 0)
    IN  setPWM(c5, ok, PWMBpin(s), 0)

(***************************************************************************)
(* The I2C bus and the retry loop around every transfer                    *)
(***************************************************************************)
\* The attempts one register access may make: int counter = 10.
Retries == 10

\* A bus on which every transfer is carried.
NoFault == [skip |-> 0, fail |-> 0]

\* The next transfer on bus b is carried: the fault has not begun or is over.
Carried(b) == b.skip > 0 \/ b.fail = 0

\* The bus after one transfer attempt.
AfterTransfer(b) ==
    IF b.skip > 0 THEN [b EXCEPT !.skip = b.skip - 1]
    ELSE IF b.fail > 0 THEN [b EXCEPT !.fail = b.fail - 1]
    ELSE b

RECURSIVE RetryLoop_CountOnly(_, _, _, _)
\* The loop running on its counter alone: while (counter--).
RetryLoop_CountOnly(b, failed, counter, tries) ==
    IF counter # 0
    THEN RetryLoop_CountOnly(AfterTransfer(b), ~Carried(b), counter - 1, tries + 1)
    ELSE [bus |-> b, failed |-> failed, tries |-> tries]

RECURSIVE RetryLoop(_, _, _, _)
\* while (failed && counter--) failed = transfer(...) != n;
\* The result carries the bus afterwards, the final value of failed and the
\* number of transfers attempted.
RetryLoop(b, failed, counter, tries) ==
    IF failed /\ counter # 0
    THEN RetryLoop(AfterTransfer(b), ~Carried(b), counter - 1, tries + 1)
    ELSE [bus |-> b, failed |-> failed, tries |-> tries]

\* MotorShield::write8(addr, d): false when every attempt failed.
write8(b) == RetryLoop(b, TRUE, Retries, 0)

\* MotorShield::read8(addr): throws when every attempt failed.
read8(b) == RetryLoop(b, TRUE, Retries, 0)

\* setPWM(num, on, off) that reports success whatever the transfers did.
setPWM3OnBus_AlwaysTrue(b, c, num, on, off) ==
    LET r == RetryLoop(b, TRUE, Retries, 0)
    IN  [bus |-> r.bus, chan |-> IF r.failed THEN c ELSE setPWM3(c, num, on, off),
         ok |-> TRUE, tries |-> r.tries]

\* MotorShield::setPWM(num, on, off) over the bus: the channel registers
\* change when an attempt is carried.
setPWM3OnBus(b, c, num, on, off) ==
    LET r == RetryLoop(b, TRUE, Retries, 0)
    IN  [bus |-> r.bus, chan |-> IF r.failed THEN c ELSE setPWM3(c, num, on, off),
         ok |-> ~r.failed, tries |-> r.tries]

\* setPWM(pin, value) without the test of initd.
setPWMOnBus_NoInitCheck(b, c, ini, pin, value) ==
    IF value > 4095 THEN setPWM3OnBus(b, c, pin, 4096, 0)
    ELSE setPWM3OnBus(b, c, pin, 0, value)

\* MotorShield::setPWM(pin, value) over the bus.
setPWMOnBus(b, c, ini, pin, value) ==
    IF ~ini THEN [bus |-> b, chan |-> c, ok |-> FALSE, tries |-> 0]
    ELSE IF value > 4095 THEN setPWM3OnBus(b, c, pin, 4096, 0)
    ELSE setPWM3OnBus(b, c, pin, 0, value)

\* MotorShield::setPin(pin, value) over the bus.
setPinOnBus(b, c, ini, pin, high) ==
    IF ~ini THEN [bus |-> b, chan |-> c, ok |-> FALSE, tries |-> 0]
    ELSE IF ~high THEN setPWM3OnBus(b, c, pin, 0, 0)
    ELSE setPWM3OnBus(b, c, pin, 4096, 0)

\* MotorShield::reset()
reset(b) == write8(b)

\* MotorShield::setPWMFreq(freq): the read of MODE1, then four register
\* writes whose results are not looked at.  bad names the accesses that
\* failed, tries counts the attempts of the read.
setPWMFreq(b) ==
    LET rd == read8(b) IN
    IF rd.failed THEN [bus |-> rd.bus, ok |-> FALSE, bad |-> {"read"}, tries |-> rd.tries]
    ELSE LET w1 == write8(rd.bus)
             w2 == write8(w1.bus)
             w3 == write8(w2.bus)
             w4 == write8(w3.bus)
         IN  [bus |-> w4.bus, ok |-> TRUE, tries |-> rd.tries,
              bad |-> (IF w1.failed THEN {"sleep"} ELSE {})
                      \cup (IF w2.failed THEN {"prescale"} ELSE {})
                      \cup (IF w3.failed THEN {"restore"} ELSE {})
                      \cup (IF w4.failed THEN {"autoincrement"} ELSE {})]

RECURSIVE ClearChannels(_, _, _, _)
\* for (i = 0; i < 16; i++) status &= setPWM(i, 0, 0);
\* bad collects the channels whose write failed.
ClearChannels(b, c, i, bad) ==
    IF i = 16 THEN [bus |-> b, chan |-> c, bad |-> bad]
    ELSE LET w == setPWM3OnBus(b, c, i, 0, 0)
         IN  IF w.ok THEN ClearChannels(w.bus, w.chan, i + 1, bad)
             ELSE ClearChannels(w.bus, w.chan, i + 1, bad \cup {i})

(***************************************************************************)
(* State                                                                   *)
(***************************************************************************)
\* StepperMotor::StepperMotor(): the fields of a freshly constructed slot.
\* cs is the channel mutex: "free" or the name of the thread that owns it.
NewStepper ==
    [initd |-> FALSE, revsteps |-> 0, currentstep |-> 0, microsteps |-> 16,
     microstepcurve |-> 16, usperstep |-> 0, stop |-> FALSE, moving |-> FALSE,
     cs |-> "free"]

\* DCMotor::DCMotor(): the fields of a freshly constructed DC motor slot.
NewDCMotor == [initd |-> FALSE, PWMpin |-> 0, IN1pin |-> 0, IN2pin |-> 0]

\* The indices of MotorShield::dcmotors[4].
DCSlots == 0 .. 3

\* The threads that call step() or run stepThreadFn.
Threads == {"t1", "t2"}

\* A thread that is not inside a step sequence.  Inside one, steps is the
\* remaining-tick counter data.steps, msteps the divisor handed to the
\* timer, uspers the timer interval, and blocking tells whether the thread
\* is the caller of step() or the detached worker.  cb tells whether a
\* callback was handed in; cbdata is the counter behind callback_fn_data,
\* which the callback decrements.
IdleJob ==
    [pc |-> "idle", slot |-> 0, steps |-> 0, dir |-> "-", style |-> "-",
     msteps |-> 0, uspers |-> 0, blocking |-> FALSE, cb |-> FALSE, cbdata |-> 0]

\* The record of one step of the program: what was called, on which slot,
\* with which arguments, the phase it started from and what it returned.
Call(op, s, dir, style, from, arg, ret) ==
    [op |-> op, slot |-> s, dir |-> dir, style |-> style, from |-> from,
     arg |-> arg, ret |-> ret]

NoCall == Call("none", 0, "-", "-", 0, 0, "-")

\* No forward-then-backward run has been started.
RtOff == [phase |-> "setup", slot |-> 0, style |-> "-", start |-> 0, nF |-> 0, nB |-> 0]

\* MotorShield::MotorShield(): a constructed board that has not begun.
\* The hook before any board asked for it: SIGINT has its default
\* disposition, old_handler_sigint is nullptr, handler_lock is free, no
\* thread is inside a registry call and no signal is being handled.
\* disp is the handler installed for SIGINT, old the value of
\* old_handler_sigint, hooked the boards constructed with
\* register_sighandler, lock the owner of handler_lock, pend the registry
\* call each thread is inside, hpc and hthr the handler's position and the
\* thread it runs on, passes its stop-all passes for the signal in hand.
NoPend == [op |-> "-", arg |-> 0]

NoHook ==
    [disp |-> "SIG_DFL", old |-> "SIG_DFL", hooked |-> 0, lock |-> "free",
     pend |-> [t \in Threads |-> NoPend], hpc |-> "idle", hthr |-> "-", passes |-> 0]

Init ==
    /\ initd = FALSE
    /\ chan = [c \in Channels |-> LOW]
    /\ steppers = [s \in Slots |-> NewStepper]
    /\ jobs = [t \in Threads |-> IdleJob]
    /\ last = NoCall
    /\ rt = RtOff
    /\ bus = NoFault
    /\ dcmotors = [m \in DCSlots |-> NewDCMotor]
    /\ lib_steppers = << >>
    /\ lib_dcmotors = << >>
    /\ hook = NoHook

(***************************************************************************)
(* Operations                                                              *)
(***************************************************************************)
\* MotorShield::begin(): reset, frequency set-up, all 16 channels cleared;
\* initd takes the conjunction of the results.  The record keeps the
\* accesses that failed and the attempts made by reset() and by read8().
Begin ==
    \E r \in {reset(bus)} :
    \E f \in {setPWMFreq(r.bus)} :
    \E c \in {ClearChannels(f.bus, chan, 0, {})} :
    LET status == ~r.failed /\ f.ok /\ c.bad = {}
    IN  /\ initd' = status
        /\ chan' = c.chan
        /\ bus' = c.bus
        /\ last' = Call("begin", 0, "-", "-", 0,
                        [regs |-> (IF r.failed THEN {"reset"} ELSE {}) \cup f.bad,
                         chans |-> c.bad, reset |-> r.tries, read |-> f.tries],
                        status)
        /\ UNCHANGED <<steppers, dcmotors, lib_steppers, lib_dcmotors>>

\* The MCASE switch without its default branch.
SelectSteps_NoDefault(ms) == ms

\* The divisor the MCASE switch selects for a MicroSteps argument.
SelectSteps(ms) == IF ms \in SupportedSteps THEN ms ELSE 16

\* What a call can do that indexes a slot array outside its bounds: the
\* process ends on the access, or the call goes on with the memory it
\* found there and hands out a pointer to no slot.
WildOutcomes == {"crash", "wild"}

\* MotorShield::getStepper(steps, port, microsteps); port is a uint8_t, so
\* port-- takes 0 to 255.  The handle is pushed on the registry on every
\* call that returns one.
GetStepper(steps, port, ms) ==
    IF ~initd \/ port > 2
    THEN /\ last' = Call("getStepper", 0, "-", "-", 0, port, "NULL")
         /\ UNCHANGED <<initd, chan, steppers, bus, dcmotors, lib_steppers, lib_dcmotors>>
    ELSE LET s == U8(port - 1) IN
         IF s \notin Slots
         THEN \E out \in WildOutcomes :
                 /\ last' = Call(IF out = "crash" THEN "crash" ELSE "getStepper",
                                 s, "-", "-", 0, port, out)
                 /\ lib_steppers' = IF out = "crash" THEN lib_steppers
                                    ELSE Append(lib_steppers, s)
                 /\ UNCHANGED <<initd, chan, steppers, bus, dcmotors, lib_dcmotors>>
         ELSE /\ steppers' =
                     IF steppers[s].initd THEN steppers
                     ELSE [steppers EXCEPT ![s].initd = TRUE,
                                           ![s].revsteps = steps,
                                           ![s].microsteps = SelectSteps(ms),
                                           ![s].microstepcurve = SelectSteps(ms)]
              /\ lib_steppers' = Append(lib_steppers, s)
              /\ last' = Call("getStepper", s, "-", "-", steppers[s].currentstep,
                              port, "handle")
              /\ UNCHANGED <<initd, chan, bus, dcmotors, lib_dcmotors>>

\* StepperMotor::setStep(microsteps): try-lock, then the MCASE switch.
SetStep(s, ms) ==
    /\ steppers[s].initd
    /\ IF steppers[s].cs = "free"
       THEN /\ steppers' = [steppers EXCEPT ![s].microsteps = SelectSteps(ms),
                                            ![s].microstepcurve = SelectSteps(ms)]
            /\ last' = Call("setStep", s, "-", "-", steppers[s].currentstep, ms, TRUE)
       ELSE /\ last' = Call("setStep", s, "-", "-", steppers[s].currentstep, ms, FALSE)
            /\ UNCHANGED steppers
    /\ UNCHANGED <<initd, chan>>

\* The effect of one onestep(dir, style) call on a slot's fields and channels.
OneStepFields(st, dir, style) ==
    [st EXCEPT !.currentstep = NextPhase(st.currentstep, st.microsteps, dir, style)]

OneStepChan(c, ok, s, st, dir, style) ==
    LET p == NextPhase(st.currentstep, st.microsteps, dir, style)
    IN  StepWrites(c, ok, s, Ocr(p, st.microsteps, st.microstepcurve, style),
                   LatchBits(p, st.microsteps, style))

\* StepperMotor::onestep(dir, style) called directly on a handle.
OneStep(s, dir, style) ==
    /\ steppers[s].initd
    /\ steppers' = [steppers EXCEPT ![s] = OneStepFields(steppers[s], dir, style)]
    /\ chan' = OneStepChan(chan, initd, s, steppers[s], dir, style)
    /\ last' = Call("onestep", s, dir, style, steppers[s].currentstep, 0,
                    U8(steppers'[s].currentstep))
    /\ UNCHANGED initd

\* release() that also puts the phase back to 0.
Release_PhaseReset(s) ==
    /\ steppers[s].initd
    /\ chan' = ReleaseWrites(chan, initd, s)
    /\ steppers' = [steppers EXCEPT ![s].currentstep = 0]
    /\ last' = Call("release", s, "-", "-", steppers[s].currentstep, 0, "-")
    /\ UNCHANGED initd

\* StepperMotor::release()
Release(s) ==
    /\ steppers[s].initd
    /\ chan' = ReleaseWrites(chan, initd, s)
    /\ last' = Call("release", s, "-", "-", steppers[s].currentstep, 0, "-")
    /\ UNCHANGED <<initd, steppers>>

\* Steps-per-revolution values handed to getStepper.
RevSteps == {200}

(***************************************************************************)
(* Board-level calls: channel writes, DC motors, the signal handler        *)
(***************************************************************************)
\* MotorShield::setPWM(pin, value) called on the board.  The record keeps
\* the arguments, the transfers attempted and the value returned.
SetPWMCall(pin, value) ==
    LET w == setPWMOnBus(bus, chan, initd, pin, value)
    IN  /\ chan' = w.chan
        /\ bus' = w.bus
        /\ last' = Call("setPWM", 0, "-", "-", 0,
                        [pin |-> pin, value |-> value, tries |-> w.tries,
                         reg |-> ChannelReg(pin)], w.ok)
        /\ UNCHANGED <<initd, steppers, dcmotors, lib_steppers, lib_dcmotors>>

\* MotorShield::setPin(pin, value) called on the board.
SetPinCall(pin, high) ==
    LET w == setPinOnBus(bus, chan, initd, pin, high)
    IN  /\ chan' = w.chan
        /\ bus' = w.bus
        /\ last' = Call("setPin", 0, "-", "-", 0,
                        [pin |-> pin, value |-> high, tries |-> w.tries,
                         reg |-> ChannelReg(pin)], w.ok)
        /\ UNCHANGED <<initd, steppers, dcmotors, lib_steppers, lib_dcmotors>>

\* The pins getMotor assigns to DC motor slot m.
DCPins(m) ==
    CASE m = 0 -> [PWMpin |-> 8, IN2pin |-> 9, IN1pin |-> 10]
      [] m = 1 -> [PWMpin |-> 13, IN2pin |-> 12, IN1pin |-> 11]
      [] m = 2 -> [PWMpin |-> 2, IN2pin |-> 3, IN1pin |-> 4]
      [] m = 3 -> [PWMpin |-> 7, IN2pin |-> 6, IN1pin |-> 5]

\* MotorShield::getMotor(num); num is a uint8_t, so num-- takes 0 to 255.
\* The handle is pushed on the registry on every call that returns one.
GetMotor(num) ==
    IF ~initd \/ num > 4
    THEN /\ last' = Call("getMotor", 0, "-", "-", 0, num, "NULL")
         /\ UNCHANGED <<initd, chan, steppers, bus, dcmotors, lib_steppers, lib_dcmotors>>
    ELSE LET m == U8(num - 1) IN
         IF m \notin DCSlots
         THEN \E out \in WildOutcomes :
                 /\ last' = Call(IF out = "crash" THEN "crash" ELSE "getMotor",
                                 m, "-", "-", 0, num, out)
                 /\ lib_dcmotors' = IF out = "crash" THEN lib_dcmotors
                                    ELSE Append(lib_dcmotors, m)
                 /\ UNCHANGED <<initd, chan, steppers, bus, dcmotors, lib_steppers>>
         ELSE /\ dcmotors' =
                     IF dcmotors[m].initd THEN dcmotors
                     ELSE [dcmotors EXCEPT ![m] =
                              [initd |-> TRUE, PWMpin |-> DCPins(m).PWMpin,
                               IN1pin |-> DCPins(m).IN1pin, IN2pin |-> DCPins(m).IN2pin]]
              /\ lib_dcmotors' = Append(lib_dcmotors, m)
              /\ last' = Call("getMotor", m, "-", "-", 0, num, "handle")
              /\ UNCHANGED <<initd, chan, steppers, bus, lib_steppers>>

\* DCMotor::setSpeed(speed) on the handle of slot m; speed is a uint8_t.
DCSetSpeed(m, speed) ==
    LET w == setPWMOnBus(bus, chan, initd, dcmotors[m].PWMpin, speed * 16)
    IN  /\ dcmotors[m].initd
        /\ chan' = w.chan
        /\ bus' = w.bus
        /\ last' = Call("dcSpeed", m, "-", "-", 0, speed, "-")
        /\ UNCHANGED <<initd, steppers, dcmotors, lib_steppers, lib_dcmotors>>

\* The commands of DCMotor::run.
MotorCmds == {"FORWARD", "BACKWARD", "RELEASE", "BRAKE"}

\* run(cmd) with the line going high written first.
DCRun_HighFirst(m, cmd) ==
    LET mot == dcmotors[m]
        idle == [bus |-> bus, chan |-> chan, ok |-> FALSE, tries |-> 0]
    IN  /\ mot.initd
        /\ \E w1 \in {CASE cmd = "FORWARD" -> setPinOnBus(bus, chan, initd, mot.IN1pin, TRUE)
                         [] cmd = "BACKWARD" -> setPinOnBus(bus, chan, initd, mot.IN2pin, TRUE)
                         [] cmd = "RELEASE" -> setPinOnBus(bus, chan, initd, mot.IN1pin, FALSE)
                         [] OTHER -> idle} :
           \E w2 \in {CASE cmd = "FORWARD" -> setPinOnBus(w1.bus, w1.chan, initd, mot.IN2pin, FALSE)
                         [] cmd = "BACKWARD" -> setPinOnBus(w1.bus, w1.chan, initd, mot.IN1pin, FALSE)
                         [] cmd = "RELEASE" -> setPinOnBus(w1.bus, w1.chan, initd, mot.IN2pin, FALSE)
                         [] OTHER -> idle} :
              /\ chan' = w2.chan
              /\ bus' = w2.bus
              /\ last' = Call("run", m, cmd, "-", 0,
                              [mid |-> w1.chan, tries |-> w1.tries + w2.tries], "-")
        /\ UNCHANGED <<initd, steppers, dcmotors, lib_steppers, lib_dcmotors>>

\* DCMotor::run(cmd) on the handle of slot m: two setPin calls, or none for
\* BRAKE.  The record keeps the channels between the two writes and the
\* transfers attempted.
DCRun(m, cmd) ==
    LET mot == dcmotors[m]
        idle == [bus |-> bus, chan |-> chan, ok |-> FALSE, tries |-> 0]
    IN  /\ mot.initd
        /\ \E w1 \in {CASE cmd = "FORWARD" -> setPinOnBus(bus, chan, initd, mot.IN2pin, FALSE)
                         [] cmd = "BACKWARD" -> setPinOnBus(bus, chan, initd, mot.IN1pin, FALSE)
                         [] cmd = "RELEASE" -> setPinOnBus(bus, chan, initd, mot.IN1pin, FALSE)
                         [] OTHER -> idle} :
           \E w2 \in {CASE cmd = "FORWARD" -> setPinOnBus(w1.bus, w1.chan, initd, mot.IN1pin, TRUE)
                         [] cmd = "BACKWARD" -> setPinOnBus(w1.bus, w1.chan, initd, mot.IN2pin, TRUE)
                         [] cmd = "RELEASE" -> setPinOnBus(w1.bus, w1.chan, initd, mot.IN2pin, FALSE)
                         [] OTHER -> idle} :
              /\ chan' = w2.chan
              /\ bus' = w2.bus
              /\ last' = Call("run", m, cmd, "-", 0,
                              [mid |-> w1.chan, tries |-> w1.tries + w2.tries], "-")
        /\ UNCHANGED <<initd, steppers, dcmotors, lib_steppers, lib_dcmotors>>

\* The elements of a registry.
Registered(lib) == {lib[i] : i \in 1 .. Len(lib)}

RECURSIVE AllOff(_, _, _, _)
\* for (motor : lib_dcmotors) motor->fullOff(): setPWM(PWMpin, 0) on every
\* entry from the i-th on, in registry order; off collects the slots whose
\* write was carried.
AllOff(b, c, i, off) ==
    IF i > Len(lib_dcmotors) THEN [bus |-> b, chan |-> c, off |-> off]
    ELSE IF lib_dcmotors[i] \notin DCSlots THEN AllOff(b, c, i + 1, off)
    ELSE LET w == setPWMOnBus(b, c, initd, dcmotors[lib_dcmotors[i]].PWMpin, 0)
         IN  IF w.ok THEN AllOff(w.bus, w.chan, i + 1, off \cup {lib_dcmotors[i]})
             ELSE AllOff(w.bus, w.chan, i + 1, off)

\* MotorShield::sighandler(sig): stopMotor on every registered stepper,
\* fullOff on every registered DC motor, then the handlers installed
\* before.  A registry entry that points to no slot makes the walk go
\* through memory that is no motor.
SigHandler ==
    LET wild == \/ Registered(lib_steppers) \ Slots # {}
                \/ Registered(lib_dcmotors) \ DCSlots # {}
        a == AllOff(bus, chan, 1, {})
    IN  \E out \in IF wild THEN WildOutcomes ELSE {"done"} :
           IF out = "crash"
           THEN /\ last' = Call("crash", 0, "-", "-", 0, 0, out)
                /\ UNCHANGED <<initd, chan, steppers, bus, dcmotors, lib_steppers,
                               lib_dcmotors>>
           ELSE /\ steppers' = [s \in Slots |->
                                  IF s \in Registered(lib_steppers) /\ steppers[s].moving
                                  THEN [steppers[s] EXCEPT !.stop = TRUE]
                                  ELSE steppers[s]]
                /\ chan' = a.chan
                /\ bus' = a.bus
                /\ last' = Call("signal", 0, "-", "-", 0, a.off, out)
                /\ UNCHANGED <<initd, dcmotors, lib_steppers, lib_dcmotors>>

\* The erase loop of the destructor: the first entry equal to x is taken
\* out of the list (erase, then break), later ones stay.
EraseFirst(lib, x) ==
    IF \E i \in 1 .. Len(lib) : lib[i] = x
    THEN LET k == CHOOSE i \in 1 .. Len(lib) :
                     lib[i] = x /\ \A h \in 1 .. (i - 1) : lib[h] # x
         IN  SubSeq(lib, 1, k - 1) \o SubSeq(lib, k + 1, Len(lib))
    ELSE lib

RECURSIVE EraseSlots(_, _, _)
\* for (i = 0; i < n; i++) erase the first entry of slot i.
EraseSlots(lib, i, n) ==
    IF i = n THEN lib ELSE EraseSlots(EraseFirst(lib, i), i + 1, n)

RECURSIVE OffSlots(_, _, _)
\* The fullOff() calls of the destructor on the DC motors handed out, from
\* slot i on.
OffSlots(b, c, i) ==
    IF i = 4 THEN [bus |-> b, chan |-> c]
    ELSE IF ~dcmotors[i].initd THEN OffSlots(b, c, i + 1)
    ELSE LET w == setPWMOnBus(b, c, initd, dcmotors[i].PWMpin, 0)
         IN  OffSlots(w.bus, w.chan, i + 1)

\* MotorShield::~MotorShield(): one registry entry per slot is erased, the
\* DC motors handed out are switched off and the steppers released.  The
\* board object is gone afterwards.
Destructor ==
    \E off \in {OffSlots(bus, chan, 0)} :
       LET c0 == IF steppers[0].initd THEN ReleaseWrites(off.chan, initd, 0) ELSE off.chan
           c1 == IF steppers[1].initd THEN ReleaseWrites(c0, initd, 1) ELSE c0
       IN  /\ lib_dcmotors' = EraseSlots(lib_dcmotors, 0, 4)
           /\ lib_steppers' = EraseSlots(lib_steppers, 0, 2)
           /\ chan' = c1
           /\ bus' = off.bus
           /\ last' = Call("destructor", 0, "-", "-", 0, 0, "-")
           /\ UNCHANGED <<initd, steppers, dcmotors>>

\* MotorShield::MotorShield(addr, bus, register_sighandler = true): the
\* handler found installed is kept in old_handler_sigint and sighandler is
\* installed.
Construct ==
    /\ hook' = [hook EXCEPT !.old = hook.disp, !.disp = "sighandler",
                             !.hooked = hook.hooked + 1]
    /\ last' = Call("construct", 0, "-", "-", 0, hook.hooked + 1, hook.disp)
    /\ UNCHANGED <<initd, chan, steppers, bus, dcmotors, lib_steppers, lib_dcmotors>>

\* A thread that is not inside the signal handler.
Running(t) == hook.hpc = "idle" \/ hook.hthr # t

\* std::lock_guard<std::mutex> lock(handler_lock) in getMotor or
\* getStepper: thread t owns the registry lock, the push_back is to come.
EnterRegistry(t, op, arg) ==
    /\ initd
    /\ Running(t)
    /\ hook.pend[t] = NoPend
    /\ hook.lock = "free"
    /\ hook' = [hook EXCEPT !.lock = t, !.pend[t] = [op |-> op, arg |-> arg]]
    /\ last' = Call("registry", 0, "-", "-", 0, arg, t)
    /\ UNCHANGED <<initd, chan, steppers, bus, dcmotors, lib_steppers, lib_dcmotors>>

\* The push_back and the return of the call thread t is inside: the lock
\* is released.  steps and ms are the other arguments of a getStepper call.
LeaveRegistry(t, steps, ms) ==
    /\ Running(t)
    /\ hook.pend[t] # NoPend
    /\ hook.lock = t
    /\ IF hook.pend[t].op = "getMotor" THEN GetMotor(hook.pend[t].arg)
       ELSE GetStepper(steps, hook.pend[t].arg, ms)
    /\ hook' = [hook EXCEPT !.lock = "free", !.pend[t] = NoPend]

\* What locking a std::mutex does to the thread that owns it already: the
\* thread blocks for ever, or the attempt is detected and the process ends.
RelockOutcomes == {"stuck", "crash"}

\* SIGINT is delivered to thread t and sighandler starts on it with
\* std::lock_guard<std::mutex> lock(handler_lock).
Signal(t) ==
    /\ hook.disp = "sighandler"
    /\ hook.hpc = "idle"
    /\ \E out \in IF hook.lock = t THEN RelockOutcomes
                   ELSE IF hook.lock = "free" THEN {"pass"} ELSE {"wait"} :
          /\ hook' = [hook EXCEPT !.hpc = out, !.hthr = t, !.passes = 0,
                                   !.lock = IF out = "pass" THEN t ELSE @]
          /\ last' = Call("delivered", 0, "-", "-", 0, 0, out)
    /\ UNCHANGED <<initd, chan, steppers, bus, dcmotors, lib_steppers, lib_dcmotors>>

\* The handler gets the lock another thread has released.
HandlerAcquire ==
    /\ hook.hpc = "wait"
    /\ hook.lock = "free"
    /\ hook' = [hook EXCEPT !.hpc = "pass", !.lock = hook.hthr]
    /\ last' = Call("acquired", 0, "-", "-", 0, 0, hook.hthr)
    /\ UNCHANGED <<initd, chan, steppers, bus, dcmotors, lib_steppers, lib_dcmotors>>

\* The two loops of sighandler under the lock.
HandlerPass ==
    /\ hook.hpc = "pass"
    /\ SigHandler
    /\ hook' = [hook EXCEPT !.hpc = "chain", !.passes = hook.passes + 1]

\* if (old_handler_sigint != nullptr) old_handler_sigint(sig), with the
\* lock_guard still in scope; then the return releases the lock.
HandlerChain ==
    /\ hook.hpc = "chain"
    /\ \E out \in IF hook.old = "sighandler" THEN RelockOutcomes ELSE {"idle"} :
          /\ hook' = [hook EXCEPT !.hpc = out,
                                   !.lock = IF out = "idle" THEN "free" ELSE @]
          /\ last' = Call("handler", 0, "-", "-", 0, hook.passes, out)
    /\ UNCHANGED <<initd, chan, steppers, bus, dcmotors, lib_steppers, lib_dcmotors>>

\* The bus starts to drop transfers: the next skip ones are carried, the
\* fail ones after them are not.
BusFault(skip, fail) ==
    /\ bus = NoFault
    /\ bus' = [skip |-> skip, fail |-> fail]
    /\ last' = Call("fault", 0, "-", "-", 0, 0, "-")
    /\ UNCHANGED <<initd, chan, steppers, dcmotors, lib_steppers, lib_dcmotors>>

\* The caller asks for a stepper handle once.
FirstHandle == \A q \in Slots : ~steppers[q].initd

(***************************************************************************)
(* Speed configuration and the step scheduler                              *)
(***************************************************************************)
\* Period with the division rounded to the nearest integer.
Period_Rounded(revsteps, rpm10) ==
    ((60000000 * 10) + (revsteps * rpm10) \div 2) \div (revsteps * rpm10)

\* 60000000ULL / ((uint32_t)revsteps * rpm), converted to the integer field.
\* rpm is a double; the model carries it in tenths of a revolution per
\* minute, so 0.3 rpm is 3 and 60 rpm is 600.
Period(revsteps, rpm10) == (60000000 * 10) \div (revsteps * rpm10)

\* setSpeed that checks its argument only once it owns the mutex.
SetSpeed_CheckUnderLock(s, rpm10) ==
    /\ steppers[s].initd
    /\ IF steppers[s].cs # "free"
       THEN /\ last' = Call("setSpeed", s, "-", "-", steppers[s].currentstep, rpm10, "false")
            /\ UNCHANGED steppers
       ELSE IF rpm10 <= 0
       THEN /\ last' = Call("setSpeed", s, "-", "-", steppers[s].currentstep, rpm10, "throw")
            /\ UNCHANGED steppers
       ELSE /\ steppers' = [steppers EXCEPT
                               ![s].usperstep = (60000000 * 10) \div (steppers[s].revsteps * rpm10)]
            /\ last' = Call("setSpeed", s, "-", "-", steppers[s].currentstep, rpm10, "true")
    /\ UNCHANGED <<initd, chan, jobs>>

\* StepperMotor::setSpeed(rpm): the argument check, then the try-lock.
\* The outcome is recorded as "throw", "true" or "false".
SetSpeed(s, rpm10) ==
    /\ steppers[s].initd
    /\ IF rpm10 <= 0
       THEN /\ last' = Call("setSpeed", s, "-", "-", steppers[s].currentstep, rpm10, "throw")
            /\ UNCHANGED steppers
       ELSE IF steppers[s].cs = "free"
       THEN /\ steppers' = [steppers EXCEPT
                               ![s].usperstep = Period(steppers[s].revsteps, rpm10)]
            /\ last' = Call("setSpeed", s, "-", "-", steppers[s].currentstep, rpm10, "true")
       ELSE /\ last' = Call("setSpeed", s, "-", "-", steppers[s].currentstep, rpm10, "false")
            /\ UNCHANGED steppers
    /\ UNCHANGED <<initd, chan, jobs>>

\* StepperMotor::stopMotor()
StopMotor(s) ==
    /\ steppers[s].initd
    /\ steppers' = IF steppers[s].moving THEN [steppers EXCEPT ![s].stop = TRUE]
                   ELSE steppers
    /\ last' = Call("stopMotor", s, "-", "-", steppers[s].currentstep, 0, "-")
    /\ UNCHANGED <<initd, chan, jobs>>

\* step() without the test of usperstep.
StepCall_NoSpeedCheck(t, s, steps, dir, style, blocking, cb) ==
    /\ steppers[s].initd
    /\ jobs[t].pc = "idle"
    /\ jobs' = [jobs EXCEPT ![t] =
                  [pc |-> "lock", slot |-> s, steps |-> steps, dir |-> dir,
                   style |-> style, msteps |-> 0, uspers |-> 0,
                   blocking |-> blocking, cb |-> cb,
                   cbdata |-> IF cb THEN steps ELSE 0]]
    /\ last' = Call("step", s, dir, style, steppers[s].currentstep, steps,
                    IF blocking THEN "inside" ELSE "returned")
    /\ UNCHANGED <<initd, chan, steppers>>

\* StepperMotor::step(steps, dir, style, blocking, callback_fn,
\* callback_fn_data): the speed check; the sequence itself runs on thread
\* t, the caller (blocking) or the detached worker (non-blocking).  A
\* non-blocking call has returned when the action ends; a blocking one is
\* still inside step().  With a callback the caller hands in a counter
\* that starts at steps, as examples/motor.cpp does.
StepCall(t, s, steps, dir, style, blocking, cb) ==
    /\ steppers[s].initd
    /\ jobs[t].pc = "idle"
    /\ IF steppers[s].usperstep = 0
       THEN /\ last' = Call("step", s, dir, style, steppers[s].currentstep, steps, "throw")
            /\ UNCHANGED jobs
       ELSE /\ jobs' = [jobs EXCEPT ![t] =
                          [pc |-> "lock", slot |-> s, steps |-> steps, dir |-> dir,
                           style |-> style, msteps |-> 0, uspers |-> 0,
                           blocking |-> blocking, cb |-> cb,
                           cbdata |-> IF cb THEN steps ELSE 0]]
            /\ last' = Call("step", s, dir, style, steppers[s].currentstep, steps,
                            IF blocking THEN "inside" ELSE "returned")
    /\ UNCHANGED <<initd, chan, steppers>>

\* The timer interval, the tick count and the divisor that the blocking
\* branch of step() computes under the lock; steps is a uint16_t.
StepPlan(st, steps, style) ==
    [uspers |-> CASE style = "INTERLEAVE" -> st.usperstep \div 2
                  [] style = "MICROSTEP" -> st.usperstep \div st.microsteps
                  [] OTHER -> st.usperstep,
     steps |-> IF style = "MICROSTEP" THEN U16(steps * st.microsteps) ELSE steps,
     msteps |-> st.microsteps]

\* stepThreadFn that leaves the tick count as it was handed in.
ThreadPlan_TicksUnscaled(mot, steps, style) ==
    [uspers |-> CASE style = "INTERLEAVE" -> mot.usperstep \div 2
                  [] style = "MICROSTEP" -> mot.usperstep \div mot.microsteps
                  [] OTHER -> mot.usperstep,
     steps |-> steps,
     msteps |-> mot.microsteps]

\* The same three values as stepThreadFn computes them.
ThreadPlan(mot, steps, style) ==
    [uspers |-> CASE style = "INTERLEAVE" -> mot.usperstep \div 2
                  [] style = "MICROSTEP" -> mot.usperstep \div mot.microsteps
                  [] OTHER -> mot.usperstep,
     steps |-> IF style = "MICROSTEP" THEN U16(steps * mot.microsteps) ELSE steps,
     msteps |-> mot.microsteps]

\* The timer of thread t's sequence exists: from create_clk to destroy_clk.
Armed(t) == jobs[t].pc \in {"armed", "waiting", "notified", "timedout", "poll", "destroy"}

\* unique_lock lock(cs), the interval and tick count for the style,
\* stop = false, and create_clk, in step() or in stepThreadFn.
JobLock(t) ==
    LET j == jobs[t]
        st == steppers[j.slot]
    IN  /\ j.pc = "lock"
        /\ st.cs = "free"
        /\ steppers' = [steppers EXCEPT ![j.slot].cs = t, ![j.slot].stop = FALSE]
        /\ LET plan == IF j.blocking THEN StepPlan(st, j.steps, j.style)
                                     ELSE ThreadPlan(st, j.steps, j.style)
           IN  jobs' = [jobs EXCEPT ![t].pc = "armed",
                                    ![t].msteps = plan.msteps,
                                    ![t].uspers = plan.uspers,
                                    ![t].steps = plan.steps]
        /\ last' = Call("lock", j.slot, j.dir, j.style, st.currentstep, j.steps, t)
        /\ UNCHANGED <<initd, chan>>

\* cond.wait_for(lock, ...) starts: the mutex is released while waiting.
JobWait(t) ==
    LET j == jobs[t] IN
    /\ j.pc = "armed"
    /\ steppers' = [steppers EXCEPT ![j.slot].cs = "free"]
    /\ jobs' = [jobs EXCEPT ![t].pc = "waiting"]
    /\ last' = Call("wait", j.slot, j.dir, j.style, steppers[j.slot].currentstep, 0, t)
    /\ UNCHANGED <<initd, chan>>

\* The wait ends by its timeout.
JobTimeout(t) ==
    LET j == jobs[t] IN
    /\ j.pc = "waiting"
    /\ jobs' = [jobs EXCEPT ![t].pc = "timedout"]
    /\ last' = Call("timeout", j.slot, j.dir, j.style, steppers[j.slot].currentstep, 0, t)
    /\ UNCHANGED <<initd, chan, steppers>>

\* The wait ends by a spurious wake-up, which wait_for reports as no_timeout.
JobSpurious(t) ==
    LET j == jobs[t] IN
    /\ j.pc = "waiting"
    /\ jobs' = [jobs EXCEPT ![t].pc = "notified"]
    /\ last' = Call("wakeup", j.slot, j.dir, j.style, steppers[j.slot].currentstep, 0, t)
    /\ UNCHANGED <<initd, chan, steppers>>

\* wait_for re-acquires the mutex before it returns.
JobRelock(t) ==
    LET j == jobs[t] IN
    /\ j.pc \in {"notified", "timedout"}
    /\ steppers[j.slot].cs = "free"
    /\ steppers' = [steppers EXCEPT ![j.slot].cs = t]
    /\ jobs' = [jobs EXCEPT ![t].pc = IF j.pc = "timedout" THEN "poll" ELSE "destroy"]
    /\ last' = Call("relock", j.slot, j.dir, j.style, steppers[j.slot].currentstep, 0, t)
    /\ UNCHANGED <<initd, chan>>

\* while (data.steps) usleep(uspers); ends when the tick counter is zero.
JobPoll(t) ==
    LET j == jobs[t] IN
    /\ j.pc = "poll"
    /\ j.steps = 0
    /\ jobs' = [jobs EXCEPT ![t].pc = "destroy"]
    /\ last' = Call("polled", j.slot, j.dir, j.style, steppers[j.slot].currentstep, 0, t)
    /\ UNCHANGED <<initd, chan, steppers>>

\* The end of a sequence without the assignment moving = false.
JobDestroy_MovingLeft(t) ==
    LET j == jobs[t] IN
    /\ j.pc = "destroy"
    /\ steppers' = [steppers EXCEPT ![j.slot].cs = "free"]
    /\ jobs' = [jobs EXCEPT ![t] = IdleJob]
    /\ last' = Call("destroy", j.slot, j.dir, j.style, steppers[j.slot].currentstep,
                    j.steps, IF j.blocking THEN "returned" ELSE "ended")
    /\ UNCHANGED <<initd, chan>>

\* destroy_clk, moving = false, and the mutex released on return.  The
\* record keeps the remaining-tick counter the sequence returned with.
JobDestroy(t) ==
    LET j == jobs[t] IN
    /\ j.pc = "destroy"
    /\ steppers' = [steppers EXCEPT ![j.slot].moving = FALSE, ![j.slot].cs = "free"]
    /\ jobs' = [jobs EXCEPT ![t] = IdleJob]
    /\ last' = Call("destroy", j.slot, j.dir, j.style, steppers[j.slot].currentstep,
                    j.steps, IF j.blocking THEN "returned" ELSE "ended")
    /\ UNCHANGED <<initd, chan>>

\* The threads blocked in wait_for on a slot's condition variable.
Waiters(s) == {u \in Threads : jobs[u].pc = "waiting" /\ jobs[u].slot = s}

\* The handler with the end test looking at the counter only.
Tick_EndOnCountOnly(t) ==
    LET j == jobs[t]
        s == j.slot
        st == steppers[s]
        odd == (j.steps % j.msteps # 0) /\ j.style = "MICROSTEP"
        go == odd \/ (j.steps # 0 /\ ~st.stop)
        left == IF go THEN j.steps - 1 ELSE j.steps
        end == ~odd /\ left = 0
        stepped == IF go THEN [OneStepFields(st, j.dir, j.style) EXCEPT !.moving = TRUE]
                   ELSE st
        called == ~odd /\ ~end /\ stepped.moving /\ j.cb
    IN  /\ Armed(t)
        /\ steppers' = [steppers EXCEPT ![s] =
                           IF end THEN [stepped EXCEPT !.moving = FALSE] ELSE stepped]
        /\ chan' = IF go THEN OneStepChan(chan, initd, s, st, j.dir, j.style) ELSE chan
        /\ jobs' = [u \in Threads |->
                      LET ju == IF u = t
                                THEN [jobs[u] EXCEPT !.steps = left,
                                                     !.cbdata = IF called THEN @ - 1 ELSE @]
                                ELSE jobs[u]
                      IN  IF end /\ u \in Waiters(s) THEN [ju EXCEPT !.pc = "notified"]
                          ELSE ju]
        /\ last' = Call("tick", s, j.dir, j.style, st.currentstep, j.steps, go)
        /\ UNCHANGED initd

\* The handler with the exit check on every tick, odd microsteps included.
Tick_ExitCheckFirst(t) ==
    LET j == jobs[t]
        s == j.slot
        st == steppers[s]
        odd == (j.steps % j.msteps # 0) /\ j.style = "MICROSTEP"
        go == j.steps # 0 /\ ~st.stop
        left == IF go THEN j.steps - 1 ELSE j.steps
        end == left = 0 \/ st.stop
        stepped == IF go THEN [OneStepFields(st, j.dir, j.style) EXCEPT !.moving = TRUE]
                   ELSE st
        called == ~odd /\ ~end /\ stepped.moving /\ j.cb
    IN  /\ Armed(t)
        /\ steppers' = [steppers EXCEPT ![s] =
                           IF end THEN [stepped EXCEPT !.moving = FALSE] ELSE stepped]
        /\ chan' = IF go THEN OneStepChan(chan, initd, s, st, j.dir, j.style) ELSE chan
        /\ jobs' = [u \in Threads |->
                      LET ju == IF u = t
                                THEN [jobs[u] EXCEPT !.steps = left,
                                                     !.cbdata = IF called THEN @ - 1 ELSE @]
                                ELSE jobs[u]
                      IN  IF end /\ u \in Waiters(s) THEN [ju EXCEPT !.pc = "notified"]
                          ELSE ju]
        /\ last' = Call("tick", s, j.dir, j.style, st.currentstep, j.steps, go)
        /\ UNCHANGED initd

\* StepperMotor::stepHandlerFn: one tick of the timer of thread t's sequence.
\* The callback runs last, when the tick has not returned from the
\* odd-microstep branch and moving is still true.
Tick(t) ==
    LET j == jobs[t]
        s == j.slot
        st == steppers[s]
        odd == (j.steps % j.msteps # 0) /\ j.style = "MICROSTEP"
        go == odd \/ (j.steps # 0 /\ ~st.stop)
        left == IF go THEN j.steps - 1 ELSE j.steps
        end == ~odd /\ (left = 0 \/ st.stop)
        stepped == IF go THEN [OneStepFields(st, j.dir, j.style) EXCEPT !.moving = TRUE]
                   ELSE st
        called == ~odd /\ ~end /\ stepped.moving /\ j.cb
    IN  /\ Armed(t)
        /\ steppers' = [steppers EXCEPT ![s] =
                           IF end THEN [stepped EXCEPT !.moving = FALSE] ELSE stepped]
        /\ chan' = IF go THEN OneStepChan(chan, initd, s, st, j.dir, j.style) ELSE chan
        /\ jobs' = [u \in Threads |->
                      LET ju == IF u = t
                                THEN [jobs[u] EXCEPT !.steps = left,
                                                     !.cbdata = IF called THEN @ - 1 ELSE @]
                                ELSE jobs[u]
                      IN  IF end /\ u \in Waiters(s) THEN [ju EXCEPT !.pc = "notified"]
                          ELSE ju]
        /\ last' = Call("tick", s, j.dir, j.style, st.currentstep, j.steps, go)
        /\ UNCHANGED initd

(***************************************************************************)
(* The driver under concurrent use: one stepper handle on port 2, a thread *)
(* that runs step sequences, and callers that configure, stop and release  *)
(* the motor at any moment.                                                *)
(***************************************************************************)
\* The divisor of this scenario.
SchedSteps == {8}

\* setSpeed arguments in tenths of rpm: -5, 0 and 60 rpm.
Rpms == {0 - 50, 0, 600}

\* The largest step count handed to step().
MaxSteps == 2

\* The one thread of this scenario.
SchedThreads == {"t1"}

Next ==
    \/ /\ \/ ~initd /\ Begin
          \/ \E port \in 2 .. 3, ms \in SchedSteps, steps \in RevSteps :
                FirstHandle /\ GetStepper(steps, port, ms)
          \/ (\E s \in Slots, ms \in SchedSteps : SetStep(s, ms)) /\ UNCHANGED <<bus, dcmotors, lib_steppers, lib_dcmotors>>
          \/ (\E s \in Slots : Release(s)) /\ UNCHANGED <<bus, dcmotors, lib_steppers, lib_dcmotors>>
       /\ UNCHANGED <<jobs, rt, hook>>
    \/ /\ \/ \E s \in Slots, rpm10 \in Rpms : SetSpeed(s, rpm10)
          \/ \E s \in Slots : StopMotor(s)
          \/ \E t \in SchedThreads, s \in Slots, n \in 1 .. MaxSteps, dir \in Dirs,
                style \in Styles, blocking \in BOOLEAN :
                StepCall(t, s, n, dir, style, blocking, FALSE)
          \/ \E t \in SchedThreads :
                \/ JobLock(t)
                \/ JobWait(t)
                \/ JobTimeout(t)
                \/ JobSpurious(t)
                \/ JobRelock(t)
                \/ JobPoll(t)
                \/ JobDestroy(t)
                \/ Tick(t)
       /\ UNCHANGED <<rt, bus, dcmotors, lib_steppers, lib_dcmotors, hook>>

Spec == Init /\ [][Next]_vars

(***************************************************************************)
(* The set-up of a step sequence over the whole range of its inputs: every *)
(* divisor, slow and fast speeds, short and long step counts.  The timer   *)
(* is armed and the scenario ends there.                                   *)
(***************************************************************************)
\* Steps per revolution handed to getStepper: a common motor and the
\* largest value of the 16-bit argument.
PlanRevSteps == {200, 65535}

\* setSpeed arguments in tenths of rpm: 0.3, 60, 70 and 1000 rpm.
PlanRpms == {3, 600, 700, 10000}

\* Step counts handed to step(): one, a revolution, and two counts whose
\* product with a divisor does not fit 16 bits.
PlanCounts == {1, 200, 8192, 65535}

NextPlan ==
    \/ /\ \/ ~initd /\ Begin
          \/ \E ms \in SupportedSteps, steps \in PlanRevSteps :
                FirstHandle /\ GetStepper(steps, 2, ms)
       /\ UNCHANGED <<jobs, rt, hook>>
    \/ /\ \/ \E s \in Slots, rpm10 \in PlanRpms : SetSpeed(s, rpm10)
          \/ \E t \in SchedThreads, s \in Slots, n \in PlanCounts, dir \in Dirs,
                style \in Styles, blocking \in BOOLEAN :
                StepCall(t, s, n, dir, style, blocking, FALSE)
          \/ \E t \in SchedThreads : JobLock(t)
       /\ UNCHANGED <<rt, bus, dcmotors, lib_steppers, lib_dcmotors, hook>>

SpecPlan == Init /\ [][NextPlan]_vars

(***************************************************************************)
(* The coil sequencer driven call by call: one board, one stepper handle,  *)
(* every supported divisor, every style and direction.                     *)
(***************************************************************************)
\* The setStep arguments of this scenario: down to the smallest divisor, up
\* to the largest, and one that is not supported.
SeqSetStepArgs == {8, 512} \cup BadSteps

NextSeq ==
    /\ \/ ~initd /\ Begin
       \/ \E port \in 1 .. 3, ms \in SupportedSteps \cup BadSteps, steps \in RevSteps :
             FirstHandle /\ GetStepper(steps, port, ms)
       \/ (\E s \in Slots, dir \in Dirs, style \in Styles : OneStep(s, dir, style))
          /\ UNCHANGED <<bus, dcmotors, lib_steppers, lib_dcmotors>>
       \/ (\E s \in Slots, ms \in SeqSetStepArgs : SetStep(s, ms)) /\ UNCHANGED <<bus, dcmotors, lib_steppers, lib_dcmotors>>
       \/ (\E s \in Slots : Release(s)) /\ UNCHANGED <<bus, dcmotors, lib_steppers, lib_dcmotors>>
    /\ UNCHANGED <<jobs, rt, hook>>

SpecSeq == Init /\ [][NextSeq]_vars

(***************************************************************************)
(* A forward-then-backward run: the caller positions the motor with any    *)
(* onestep calls, then makes N calls FORWARD and N calls BACKWARD in one   *)
(* style.                                                                  *)
(***************************************************************************)
\* The longest run: N <= MaxN.
MaxN == 3

RtStart(s, style) ==
    /\ rt.phase = "setup"
    /\ steppers[s].initd
    /\ rt' = [phase |-> "fwd", slot |-> s, style |-> style,
              start |-> steppers[s].currentstep, nF |-> 0, nB |-> 0]
    /\ UNCHANGED <<initd, chan, steppers, jobs, last, bus, dcmotors, lib_steppers, lib_dcmotors, hook>>

RtForward ==
    /\ rt.phase = "fwd"
    /\ rt.nF < MaxN
    /\ OneStep(rt.slot, "FORWARD", rt.style)
    /\ rt' = [rt EXCEPT !.nF = rt.nF + 1]
    /\ UNCHANGED <<jobs, bus, dcmotors, lib_steppers, lib_dcmotors, hook>>

RtBackward ==
    /\ rt.phase \in {"fwd", "bwd"}
    /\ rt.nB < rt.nF
    /\ OneStep(rt.slot, "BACKWARD", rt.style)
    /\ rt' = [rt EXCEPT !.phase = "bwd", !.nB = rt.nB + 1]
    /\ UNCHANGED <<jobs, bus, dcmotors, lib_steppers, lib_dcmotors, hook>>

NextRT ==
    \/ ~initd /\ Begin /\ UNCHANGED <<jobs, rt, hook>>
    \/ \E port \in 1 .. 2, ms \in SupportedSteps, steps \in RevSteps :
          FirstHandle /\ GetStepper(steps, port, ms) /\ UNCHANGED <<jobs, rt, hook>>
    \/ \E s \in Slots, dir \in Dirs, style \in Styles :
          rt.phase = "setup" /\ OneStep(s, dir, style) /\ UNCHANGED <<jobs, rt, bus, dcmotors, lib_steppers, lib_dcmotors, hook>>
    \/ \E s \in Slots, style \in Styles : RtStart(s, style)
    \/ RtForward
    \/ RtBackward

SpecRT == Init /\ [][NextRT]_vars

(***************************************************************************)
(* The board on an unreliable bus: begin, channel writes, handles for any  *)
(* 8-bit motor or port number, DC motors and the signal handler.  A crash  *)
(* ends the process.                                                       *)
(***************************************************************************)
\* The most handles handed out of each kind.
MaxHandles == 2

\* Where a fault begins, counted in transfers: at once, at the prescaler
\* write and at the first channel clear of begin().
FaultStarts == {0, 3, 6}

\* How many transfers in a row a fault drops: one short of the retry
\* budget, exactly it, and three budgets.
FaultLengths == {9, 10, 30}

\* Motor and port numbers: valid ones, 0, and the first one too large.
MotorNums == {0, 1, 5}
PortNums == {0, 1, 3}

\* The channel and the values written by direct calls.
CallPins == {15}

\* A channel number outside 0 .. 15 whose block starts at the prescale
\* register.
WildPins == {62}
CallValues == {0, 4095, 4096}

\* The DC motor speed: full.
DCSpeeds == {255}

NextBoard ==
    /\ last.op # "crash"
    /\ \/ Begin
       \/ \E skip \in FaultStarts, fail \in FaultLengths : BusFault(skip, fail)
       \/ \E pin \in CallPins, value \in CallValues : SetPWMCall(pin, value)
       \/ \E pin \in CallPins, high \in BOOLEAN : SetPinCall(pin, high)
       \/ \E pin \in WildPins : SetPWMCall(pin, 0)
       \/ \E pin \in WildPins : SetPinCall(pin, TRUE)
       \/ \E num \in MotorNums : Len(lib_dcmotors) < MaxHandles /\ GetMotor(num)
       \/ \E port \in PortNums, ms \in SchedSteps, steps \in RevSteps :
             Len(lib_steppers) < MaxHandles /\ GetStepper(steps, port, ms)
       \/ \E m \in DCSlots, speed \in DCSpeeds : DCSetSpeed(m, speed)
       \/ SigHandler
    /\ UNCHANGED <<jobs, rt, hook>>

SpecBoard == Init /\ [][NextBoard]_vars

(***************************************************************************)
(* Step sequences with a callback, under stopMotor and the termination     *)
(* signal: one stepper handle on port 2 at 60 rpm, one DC motor, and a     *)
(* thread that runs sequences in every style.                              *)
(***************************************************************************)
\* The port and the DC motor number of this scenario.
CbPorts == {2}
CbMotors == {1}

\* setSpeed argument in tenths of rpm.
CbRpms == {600}

NextCb ==
    \/ /\ \/ ~initd /\ Begin
          \/ \E port \in CbPorts, ms \in SchedSteps, steps \in RevSteps :
                FirstHandle /\ GetStepper(steps, port, ms)
          \/ \E num \in CbMotors : lib_dcmotors = << >> /\ GetMotor(num)
          \/ \E m \in DCSlots, speed \in DCSpeeds : DCSetSpeed(m, speed)
          \/ SigHandler
       /\ UNCHANGED <<jobs, rt, hook>>
    \/ /\ \/ \E s \in Slots, rpm10 \in CbRpms :
                steppers[s].usperstep = 0 /\ SetSpeed(s, rpm10)
          \/ \E s \in Slots : StopMotor(s)
          \/ \E t \in SchedThreads, s \in Slots, n \in 1 .. MaxSteps,
                style \in Styles, blocking \in BOOLEAN :
                StepCall(t, s, n, "FORWARD", style, blocking, TRUE)
          \/ \E t \in SchedThreads :
                \/ JobLock(t)
                \/ JobWait(t)
                \/ JobTimeout(t)
                \/ JobSpurious(t)
                \/ JobRelock(t)
                \/ JobPoll(t)
                \/ JobDestroy(t)
                \/ Tick(t)
       /\ UNCHANGED <<rt, bus, dcmotors, lib_steppers, lib_dcmotors, hook>>

SpecCb == Init /\ [][NextCb]_vars

(***************************************************************************)
(* Two steppers of one board stepping at the same time: a handle on each   *)
(* port, each driven by a thread of its own, the ticks of the two timers   *)
(* interleaved in every order.                                             *)
(***************************************************************************)
\* The thread that drives the stepper in slot s.
ThreadOf(s) == IF s = 0 THEN "t1" ELSE "t2"

\* The ports handles are taken on.
TwoPorts == {1, 2}

\* The styles of the sequences.
TwoStyles == {"DOUBLE", "MICROSTEP"}

\* The step count of the sequences.
TwoCounts == {1}

\* A stepper runs one sequence from the phase getStepper left.
FirstSequence(s) == steppers[s].currentstep = 0 /\ jobs[ThreadOf(s)].pc = "idle"

NextTwo ==
    \/ /\ \/ ~initd /\ Begin
          \/ \E port \in TwoPorts, ms \in SchedSteps, steps \in RevSteps :
                ~steppers[port - 1].initd /\ GetStepper(steps, port, ms)
       /\ UNCHANGED <<jobs, rt, hook>>
    \/ /\ \/ \E s \in Slots, rpm10 \in CbRpms :
                steppers[s].usperstep = 0 /\ SetSpeed(s, rpm10)
          \/ \E s \in Slots : StopMotor(s)
          \/ \E s \in Slots, n \in TwoCounts, style \in TwoStyles, blocking \in BOOLEAN :
                FirstSequence(s) /\ StepCall(ThreadOf(s), s, n, "FORWARD", style, blocking, FALSE)
          \/ \E t \in Threads :
                \/ JobLock(t)
                \/ JobWait(t)
                \/ JobTimeout(t)
                \/ JobSpurious(t)
                \/ JobRelock(t)
                \/ JobPoll(t)
                \/ JobDestroy(t)
                \/ Tick(t)
       /\ UNCHANGED <<rt, bus, dcmotors, lib_steppers, lib_dcmotors, hook>>

SpecTwo == Init /\ [][NextTwo]_vars

(***************************************************************************)
(* DC motors driven command by command on a board whose writes succeed.    *)
(***************************************************************************)
\* The motor numbers handles are taken for.
DCNums == 1 .. 4

NextDC ==
    /\ \/ ~initd /\ Begin
       \/ \E num \in DCNums : Len(lib_dcmotors) < MaxHandles /\ GetMotor(num)
       \/ \E m \in DCSlots, cmd \in MotorCmds : DCRun(m, cmd)
       \/ \E m \in DCSlots, speed \in DCSpeeds : DCSetSpeed(m, speed)
    /\ UNCHANGED <<jobs, rt, hook>>

SpecDC == Init /\ [][NextDC]_vars

(***************************************************************************)
(* The life of one board and its registry entries: handles are taken, for  *)
(* the same port more than once, and the board is destroyed.               *)
(***************************************************************************)
NextReg ==
    /\ last.op # "destructor"
    /\ \/ ~initd /\ Begin
       \/ \E num \in DCNums : Len(lib_dcmotors) < MaxHandles /\ GetMotor(num)
       \/ \E port \in TwoPorts, ms \in SchedSteps, steps \in RevSteps :
             Len(lib_steppers) < MaxHandles /\ GetStepper(steps, port, ms)
       \/ Destructor
    /\ UNCHANGED <<jobs, rt, hook>>

SpecReg == Init /\ [][NextReg]_vars

(***************************************************************************)
(* The termination hook: boards constructed with register_sighandler,      *)
(* threads inside getMotor and getStepper, and SIGINT delivered to any     *)
(* thread at any moment.                                                   *)
(***************************************************************************)
\* The boards constructed with register_sighandler = true.
MaxBoards == 2

NextHook ==
    /\ \/ ~initd /\ Begin /\ UNCHANGED hook
       \/ hook.hooked < MaxBoards /\ Construct
       \/ \E t \in Threads, num \in DCNums :
             Len(lib_dcmotors) < MaxHandles /\ EnterRegistry(t, "getMotor", num)
       \/ \E t \in Threads, port \in TwoPorts :
             Len(lib_steppers) < MaxHandles /\ EnterRegistry(t, "getStepper", port)
       \/ \E t \in Threads, ms \in SchedSteps, steps \in RevSteps : LeaveRegistry(t, steps, ms)
       \/ \E t \in Threads : Signal(t)
       \/ HandlerAcquire
       \/ HandlerPass
       \/ HandlerChain
    /\ UNCHANGED <<jobs, rt>>

SpecHook == Init /\ [][NextHook]_vars

(***************************************************************************)
(* Step sequences under fair scheduling: one stepper on port 2, one        *)
(* thread that runs sequences, a caller that cancels at any moment.  The   *)
(* timer keeps firing while it is armed and the thread keeps running:      *)
(* every wait_for has a finite timeout, every lock it asks for is free     *)
(* again after the holder's call.  A spurious wake-up may happen but need  *)
(* not.                                                                    *)
(***************************************************************************)
\* The styles of this scenario: one tick per step, and M ticks per step.
LiveStyles == {"DOUBLE", "MICROSTEP"}

\* The one thread of this scenario.
LiveThreads == {"t1"}

\* What thread t does next inside step() or stepThreadFn.
ThreadStep(t) ==
    /\ \/ JobLock(t)
       \/ JobWait(t)
       \/ JobTimeout(t)
       \/ JobRelock(t)
       \/ JobPoll(t)
       \/ JobDestroy(t)
    /\ UNCHANGED <<rt, bus, dcmotors, lib_steppers, lib_dcmotors, hook>>

\* The timer of thread t's sequence fires.
TimerStep(t) ==
    /\ Tick(t)
    /\ UNCHANGED <<rt, bus, dcmotors, lib_steppers, lib_dcmotors, hook>>

NextLive ==
    \/ /\ \/ ~initd /\ Begin
          \/ \E ms \in SchedSteps, steps \in RevSteps :
                FirstHandle /\ GetStepper(steps, 2, ms)
       /\ UNCHANGED <<jobs, rt, hook>>
    \/ /\ \/ \E s \in Slots : SetSpeed(s, 600)
          \/ \E s \in Slots : StopMotor(s)
          \/ \E t \in LiveThreads, s \in Slots, n \in 1 .. MaxSteps,
                style \in LiveStyles, blocking \in BOOLEAN :
                StepCall(t, s, n, "FORWARD", style, blocking, FALSE)
          \/ \E t \in LiveThreads : JobSpurious(t)
       /\ UNCHANGED <<rt, bus, dcmotors, lib_steppers, lib_dcmotors, hook>>
    \/ \E t \in LiveThreads : ThreadStep(t)
    \/ \E t \in LiveThreads : TimerStep(t)

Fairness == \A t \in LiveThreads : WF_vars(ThreadStep(t)) /\ WF_vars(TimerStep(t))

SpecLive == Init /\ [][NextLive]_vars /\ Fairness

(***************************************************************************)
(* One stepper on port 2 and two threads that call step() on it.           *)
(***************************************************************************)
\* The step counts of this scenario.
SameCounts == {1, 2}

NextSame ==
    \/ /\ \/ ~initd /\ Begin
          \/ \E ms \in SchedSteps, steps \in RevSteps :
                FirstHandle /\ GetStepper(steps, 2, ms)
       /\ UNCHANGED <<jobs, rt, hook>>
    \/ /\ \/ \E s \in Slots : SetSpeed(s, 600)
          \/ \E s \in Slots : StopMotor(s)
          \/ \E t \in Threads, s \in Slots, n \in SameCounts, blocking \in BOOLEAN :
                StepCall(t, s, n, "FORWARD", "DOUBLE", blocking, FALSE)
          \/ \E t \in Threads :
                \/ JobLock(t)
                \/ JobWait(t)
                \/ JobTimeout(t)
                \/ JobSpurious(t)
                \/ JobRelock(t)
                \/ JobPoll(t)
                \/ JobDestroy(t)
                \/ Tick(t)
       /\ UNCHANGED <<rt, bus, dcmotors, lib_steppers, lib_dcmotors, hook>>

SpecSame == Init /\ [][NextSame]_vars

(***************************************************************************)
(* Properties of the coil sequencer                                        *)
(***************************************************************************)
\* The slot the last call was made on, its divisor and its phase.
LastM == steppers[last.slot].microsteps

LastPhase == steppers[last.slot].currentstep

\* x modulo 4M for the divisor in use.
ModCycle(x) == x % (4 * LastM)

\* The half-bridge lines of a slot that are fully on, as latch bit numbers:
\* bit 0 is AIN2, bit 1 is BIN1, bit 2 is AIN1, bit 3 is BIN2.
PinBits(c, s) ==
    (IF c[AIN2pin(s)] = HIGH THEN {0} ELSE {})
    \cup (IF c[BIN1pin(s)] = HIGH THEN {1} ELSE {})
    \cup (IF c[AIN1pin(s)] = HIGH THEN {2} ELSE {})
    \cup (IF c[BIN2pin(s)] = HIGH THEN {3} ELSE {})

\* Every half-bridge line of a slot is either fully on or fully off.
PinsDigital(c, s) ==
    \A pin \in {AIN2pin(s), BIN1pin(s), AIN1pin(s), BIN2pin(s)} : c[pin] \in {HIGH, LOW}

\* The signed change of phase the last onestep call asked for.
Signed(d) == IF last.dir = "FORWARD" THEN d ELSE 0 - d

\* The half-step index of the phase the last call started from is odd.
FromOdd == ((last.from \div (LastM \div 2)) % 2) = 1

\* C1: a onestep call that starts with currentPhase in [0, 4M) ends with
\* currentPhase in [0, 4M), in every style and direction and for every
\* divisor, also when a backward step starts below the decrement.
C1_PhaseStaysInCycle ==
    (last.op = "onestep" /\ last.from < 4 * LastM)
        => (LastPhase >= 0 /\ LastPhase < 4 * LastM)

\* C1 witness: a backward step that started below its decrement, at the
\* largest divisor.
C1_Witness ==
    /\ last.op = "onestep"
    /\ last.dir = "BACKWARD"
    /\ LastM = 512
    /\ last.from < 4 * LastM
    /\ LastPhase > last.from

CoilB(p) ==
    Ocr(p, LastM, steppers[last.slot].microstepcurve, "MICROSTEP")[2]

\* C4 as stated: the coil-A magnitude written at phase p equals the coil-B
\* magnitude of phase (4M - p) mod 4M.
C4_AsStated ==
    (last.op = "onestep" /\ last.style = "MICROSTEP")
        => chan[PWMApin(last.slot)][2] = CoilB(ModCycle(4 * LastM - LastPhase))

\* C4 as amended: the coil-A magnitude written at phase p equals the coil-B
\* magnitude of phase (M - p) mod 4M, the quarter-wave reflection.
C4_QuarterWaveReflection ==
    (last.op = "onestep" /\ last.style = "MICROSTEP")
        => chan[PWMApin(last.slot)][2] = CoilB(ModCycle(LastM - LastPhase))

\* C4 witness: a microstep to a phase inside the second quadrant.
C4_Witness ==
    /\ last.op = "onestep"
    /\ last.style = "MICROSTEP"
    /\ LastM = 16
    /\ LastPhase = 16 + 3

HalfStepPattern == <<1, 3, 2, 6, 4, 12, 8, 9>>

QuadrantPattern == <<3, 6, 12, 9>>

\* C8: the latch onestep writes is a function of the new phase only:
\* pattern[phase / (M/2)] for SINGLE, DOUBLE and INTERLEAVE, the quadrant's
\* pair for MICROSTEP; it is never 0, and its bits 0..3 drive AIN2, BIN1,
\* AIN1, BIN2 fully on when set and fully off otherwise.
C8_LatchFromPhase ==
    (last.op = "onestep") =>
        LET v == LatchValue(PinBits(chan, last.slot))
        IN  /\ PinsDigital(chan, last.slot)
            /\ v # 0
            /\ last.style # "MICROSTEP"
                  => v = HalfStepPattern[(LastPhase \div (LastM \div 2)) + 1]
            /\ last.style = "MICROSTEP"
                  => v = QuadrantPattern[(LastPhase \div LastM) + 1]

\* C8 witness: a non-microstep step on port 1 that ends on half-step index 7.
C8_Witness ==
    /\ last.op = "onestep"
    /\ last.style = "INTERLEAVE"
    /\ last.slot = 0
    /\ LastPhase \div (LastM \div 2) = 7
    /\ chan[AIN2pin(0)] = HIGH
    /\ chan[BIN2pin(0)] = HIGH

(***************************************************************************)
(* Properties of forward-then-backward runs                                *)
(***************************************************************************)
RtM == steppers[rt.slot].microsteps

RtPhase == steppers[rt.slot].currentstep

\* N calls FORWARD and N calls BACKWARD have been made.
RtComplete == rt.phase = "bwd" /\ rt.nB = rt.nF

\* The half-step index of the run's starting phase is odd.
RtStartOdd == ((rt.start \div (RtM \div 2)) % 2) = 1

\* C2 as stated: N onestep calls FORWARD then N calls BACKWARD in one style
\* leave currentPhase at its starting value, from every starting phase.
C2_AsStated == RtComplete => RtPhase = rt.start

\* C2 as amended: the round trip returns to the starting phase in
\* INTERLEAVE and MICROSTEP from every phase in [0, 4M), in SINGLE when the
\* starting half-step index is even and in DOUBLE when it is odd.
C2_RoundTrip ==
    (/\ RtComplete
     /\ rt.start < 4 * RtM
     /\ rt.style = "SINGLE" => ~RtStartOdd
     /\ rt.style = "DOUBLE" => RtStartOdd)
        => RtPhase = rt.start

\* C2 witness: a completed DOUBLE run of three steps each way that wrapped
\* around the end of the cycle.
C2_Witness ==
    /\ RtComplete
    /\ rt.nF = 3
    /\ rt.style = "DOUBLE"
    /\ RtStartOdd
    /\ rt.start + 3 * RtM >= 4 * RtM
    /\ RtPhase = rt.start

\* The number of half-bridge lines of the run's slot that are on.
RtCoils(c) == Cardinality(PinBits(c, rt.slot))

C9_NonPositiveRpmRejected ==
    [][(last'.op = "setSpeed" /\ last'.arg <= 0) =>
          /\ last'.ret = "throw"
          /\ UNCHANGED <<initd, chan, steppers, jobs, rt>>]_vars

\* C9 witness: setSpeed(-5) has thrown while a step sequence owns the
\* channel lock, with a period configured earlier still in place.
C9_Witness ==
    /\ last.op = "setSpeed"
    /\ last.arg = 0 - 50
    /\ last.ret = "throw"
    /\ steppers[last.slot].cs # "free"
    /\ steppers[last.slot].usperstep = 5000

\* C10: a setSpeed(rpm) with rpm > 0 that finds the channel lock free
\* returns true and stores floor(60,000,000 / (stepsPerRevolution * rpm));
\* 200 steps per revolution at 60 rpm give 5000.
C10_PeriodStored ==
    (last.op = "setSpeed" /\ last.arg > 0 /\ steppers[last.slot].cs = "free") =>
        LET st == steppers[last.slot]
            den == st.revsteps * last.arg
        IN  /\ last.ret = "true"
            /\ st.usperstep * den <= 60000000 * 10
            /\ (st.usperstep + 1) * den > 60000000 * 10
            /\ (st.revsteps = 200 /\ last.arg = 600) => st.usperstep = 5000

\* C10 witness: setSpeed(70) has returned true with a period that is not a
\* whole quotient.
C10_Witness ==
    /\ last.op = "setSpeed"
    /\ last.arg = 700
    /\ last.ret = "true"
    /\ steppers[last.slot].revsteps = 200
    /\ steppers[last.slot].usperstep = 4285

\* C11 as stated: whenever setSpeed returns true, periodPerStepMicros is
\* greater than zero afterwards, for every rpm > 0 and every
\* stepsPerRevolution.
C11_AsStated ==
    (last.op = "setSpeed" /\ last.ret = "true") => steppers[last.slot].usperstep > 0

\* C11 witness: setSpeed(1000) on a motor of 65535 steps per revolution has
\* returned true and the stored period is 0, the value that makes step()
\* and getStepPeriod() fail.
C11_Witness ==
    /\ last.op = "setSpeed"
    /\ last.arg = 10000
    /\ last.ret = "true"
    /\ steppers[last.slot].revsteps = 65535
    /\ steppers[last.slot].usperstep = 0

(***************************************************************************)
(* Properties of the step scheduler                                        *)
(***************************************************************************)
\* C12: step(...) on a stepper whose periodPerStepMicros is 0 fails with
\* "speed not configured": no hardware write, no timer, no worker, and
\* currentPhase, moving and the cancellation flag keep their values.
C12_UnconfiguredStepRejected ==
    [][(last'.op = "step" /\ steppers[last'.slot].usperstep = 0) =>
          /\ last'.ret = "throw"
          /\ UNCHANGED <<initd, chan, steppers, jobs, rt>>]_vars

\* C12 witness: step() has thrown on a handle of an initialized board whose
\* period is 0, with no sequence started.
C12_Witness ==
    /\ last.op = "step"
    /\ last.ret = "throw"
    /\ initd
    /\ steppers[last.slot].usperstep = 0
    /\ \A t \in Threads : jobs[t].pc = "idle"

\* The thread whose sequence the last record is about.
LastJob == jobs[last.ret]

\* C13 as stated: for every 16-bit step count and every divisor M the timer
\* is armed with interval = period (SINGLE, DOUBLE), period / 2 (INTERLEAVE)
\* or period / M (MICROSTEP) and with tick count = steps, or steps * M for
\* MICROSTEP.
C13_AsStated ==
    (last.op = "lock") =>
        LET st == steppers[last.slot] IN
        /\ LastJob.uspers = CASE last.style = "INTERLEAVE" -> st.usperstep \div 2
                              [] last.style = "MICROSTEP" -> st.usperstep \div st.microsteps
                              [] OTHER -> st.usperstep
        /\ LastJob.steps = IF last.style = "MICROSTEP" THEN last.arg * st.microsteps
                           ELSE last.arg

\* C13 witness: period 1,000,000, M = 64 and 200 steps in MICROSTEP style
\* have armed the timer with interval 15625 and 12800 ticks.
C13_Witness ==
    /\ last.op = "lock"
    /\ last.style = "MICROSTEP"
    /\ last.arg = 200
    /\ steppers[last.slot].usperstep = 1000000
    /\ steppers[last.slot].microsteps = 64
    /\ LastJob.uspers = 15625
    /\ LastJob.steps = 12800

\* C14 as stated: a blocking step() that was not cancelled returns only
\* after the remaining-tick counter has reached zero, so exactly `ticks`
\* onestep invocations (one per decrement) were made for the call.
C14_AsStated ==
    (last.op = "destroy" /\ last.ret = "returned" /\ ~steppers[last.slot].stop)
        => last.arg = 0

\* C14 witness: a blocking MICROSTEP sequence that was not cancelled has
\* returned with every tick made.
C14_Witness ==
    /\ last.op = "destroy"
    /\ last.ret = "returned"
    /\ last.style = "MICROSTEP"
    /\ ~steppers[last.slot].stop
    /\ last.arg = 0

\* No timer exists.
NoTimer == \A t \in Threads : ~Armed(t)

\* C15: the timer of a step sequence is destroyed on every path before the
\* sequence returns; once it has returned, moving is false, and while no
\* timer exists no onestep is made: the phase keeps its value and the
\* channels change only by release() or begin().
C15_TimerTornDown ==
    [][/\ (last'.op = "destroy") =>
             \A t \in Threads :
                (jobs[t].pc = "destroy" /\ jobs'[t].pc # "destroy") =>
                    /\ jobs'[t].pc = "idle"
                    /\ ~steppers'[jobs[t].slot].moving
                    /\ steppers'[jobs[t].slot].cs = "free"
       /\ NoTimer =>
             /\ \A s \in Slots : steppers'[s].currentstep = steppers[s].currentstep
             /\ \A s \in Slots : ~steppers'[s].moving
             /\ (chan' = chan \/ last'.op \in {"release", "begin"})]_vars

\* C15 witness: a blocking sequence has returned before its last tick,
\* with moving cleared and no timer left.
C15_Witness ==
    /\ last.op = "destroy"
    /\ last.ret = "returned"
    /\ last.arg > 0
    /\ ~steppers[last.slot].moving
    /\ NoTimer

\* C16: a non-blocking step() returns without waiting for any tick, and the
\* worker then arms the timer exactly as the blocking path does for the
\* same steps, style and stepper state; every tick of either path is the
\* same handler making the same onestep call.
C16_WorkerSameAsBlocking ==
    [][/\ (last'.op = "step" /\ last'.ret = "returned") =>
             /\ UNCHANGED <<initd, chan, steppers, rt>>
             /\ \E t \in Threads :
                   /\ jobs[t].pc = "idle"
                   /\ jobs'[t].pc = "lock"
                   /\ ~jobs'[t].blocking
       /\ (last'.op = "lock" /\ ~jobs[last'.ret].blocking) =>
             LET t == last'.ret
                 s == jobs[t].slot
                 plan == StepPlan(steppers[s], jobs[t].steps, jobs[t].style)
             IN  /\ jobs'[t].steps = plan.steps
                 /\ jobs'[t].uspers = plan.uspers
                 /\ jobs'[t].msteps = plan.msteps
                 /\ jobs'[t].pc = "armed"
                 /\ steppers'[s] = [steppers[s] EXCEPT !.cs = t, !.stop = FALSE]
       /\ (last'.op = "tick" /\ last'.ret = TRUE) =>
             LET s == last'.slot IN
             /\ steppers'[s].currentstep =
                   NextPhase(steppers[s].currentstep, steppers[s].microsteps,
                             last'.dir, last'.style)
             /\ chan' = OneStepChan(chan, initd, s, steppers[s], last'.dir, last'.style)]_vars

\* C16 witness: the worker of a non-blocking MICROSTEP call has finished
\* all its ticks.
C16_Witness ==
    /\ last.op = "destroy"
    /\ last.ret = "ended"
    /\ last.style = "MICROSTEP"
    /\ last.arg = 0

\* The sequence whose timer ticks on slot s, and whether the handler finds
\* its counter inside a full step of MICROSTEP style.
TimerOf(s) == CHOOSE t \in Threads : Armed(t) /\ jobs[t].slot = s

MidMicrostep(j) == j.style = "MICROSTEP" /\ j.steps % j.msteps # 0

\* The tick ends the motion: no onestep, moving cleared, every waiter woken.
TickStops(s) ==
    /\ steppers'[s].currentstep = steppers[s].currentstep
    /\ chan' = chan
    /\ ~steppers'[s].moving
    /\ jobs'[TimerOf(s)].steps = jobs[TimerOf(s)].steps
    /\ \A u \in Waiters(s) : jobs'[u].pc = "notified"

\* C17 as stated: after stopMotor() was called while moving was true, the
\* first tick performs no onestep, sets moving = false and notifies the
\* condition variable, in every style, MICROSTEP inside a full step included.
C17_AsStated ==
    [][(last'.op = "tick" /\ steppers[last'.slot].stop /\ steppers[last'.slot].moving)
          => TickStops(last'.slot)]_vars

\* C17: after stopMotor() was called while moving was true, a tick that finds
\* the counter on a full-step boundary (every tick of SINGLE, DOUBLE and
\* INTERLEAVE) performs no onestep, sets moving = false and notifies; a
\* MICROSTEP tick inside a full step still makes its onestep and decrements
\* the counter; currentPhase is in [0, 4M) either way.
C17_CancelAtStepBoundary ==
    [][(last'.op = "tick" /\ steppers[last'.slot].stop /\ steppers[last'.slot].moving) =>
          LET s == last'.slot
              j == jobs[TimerOf(s)]
          IN  /\ IF MidMicrostep(j)
                 THEN /\ steppers'[s].currentstep =
                            NextPhase(steppers[s].currentstep, steppers[s].microsteps,
                                      j.dir, j.style)
                      /\ jobs'[TimerOf(s)].steps = j.steps - 1
                      /\ steppers'[s].moving
                 ELSE TickStops(s)
              /\ steppers'[s].currentstep < 4 * steppers'[s].microsteps]_vars

\* C17 witness: a MICROSTEP tick has made its onestep with the cancellation
\* flag set, inside a full step.
C17_Witness ==
    /\ last.op = "tick"
    /\ last.style = "MICROSTEP"
    /\ last.ret = TRUE
    /\ steppers[last.slot].stop
    /\ steppers[last.slot].moving
    /\ last.arg % steppers[last.slot].microsteps # 0

\* A step sequence is in flight on slot s: timer armed, ticks remaining.
InFlight(s) == \E t \in Threads : Armed(t) /\ jobs[t].slot = s /\ jobs[t].steps > 0

\* C18 as stated: while a step sequence is in flight on a channel, also
\* while its initiator is suspended on the condition variable, setSpeed(rpm
\* > 0) and setStep on that channel return false.
C18_AsStated ==
    /\ (last.op = "setSpeed" /\ last.arg > 0 /\ InFlight(last.slot)) => last.ret = "false"
    /\ (last.op = "setStep" /\ InFlight(last.slot)) => last.ret = FALSE

\* C18 witness: setSpeed has returned true on a moving channel whose
\* sequence has ticks left and whose initiator waits on the condition
\* variable.
C18_Witness ==
    /\ last.op = "setSpeed"
    /\ last.ret = "true"
    /\ InFlight(last.slot)
    /\ steppers[last.slot].moving
    /\ \E t \in Threads : jobs[t].pc = "waiting" /\ jobs[t].slot = last.slot

(***************************************************************************)
(* Properties of release()                                                 *)
(***************************************************************************)
\* C19: on an initialized board, when release() has returned (no tick in
\* between) both coil PWM channels hold duty 0 and AIN1, AIN2, BIN1, BIN2
\* are low, whatever the phase, the last style and the moving and stop
\* flags were.
C19_ReleaseDeenergizes ==
    (last.op = "release" /\ initd) =>
        LET s == last.slot IN
        /\ chan[PWMApin(s)] = <<0, 0>>
        /\ chan[PWMBpin(s)] = <<0, 0>>
        /\ PinBits(chan, s) = {}
        /\ \A pin \in {AIN1pin(s), AIN2pin(s), BIN1pin(s), BIN2pin(s)} : chan[pin] = LOW

\* C19 witness: release() has returned on a channel that is moving, with
\* the cancellation flag set, away from phase 0.
C19_Witness ==
    /\ last.op = "release"
    /\ initd
    /\ steppers[last.slot].moving
    /\ steppers[last.slot].stop
    /\ steppers[last.slot].currentstep # 0

\* C20: release() changes only channel outputs: currentPhase,
\* periodPerStepMicros, the divisor and table, moving and the cancellation
\* flag, and every running sequence keep their values.
C20_ReleaseFrame ==
    [][(last'.op = "release") => UNCHANGED <<initd, steppers, jobs, rt>>]_vars

\* C20 witness: release() has returned on a channel with its speed set and
\* a sequence moving it away from phase 0.
C20_Witness ==
    /\ last.op = "release"
    /\ steppers[last.slot].usperstep = 5000
    /\ steppers[last.slot].moving
    /\ steppers[last.slot].currentstep # 0
    /\ \E t \in Threads : jobs[t].pc = "waiting"

(***************************************************************************)
(* Properties of the board                                                 *)
(***************************************************************************)
\* The board, the motor slots and the registries.
BoardState == <<initd, chan, bus, steppers, dcmotors, lib_steppers, lib_dcmotors>>

\* C21: while the board is not initialized (begin() not called, or its last
\* call returned false), setPWM(pin, value) and setPin return false after
\* no transfer attempt, getMotor and getStepper return null, and the call
\* leaves the channels, the bus, the motor slots and the registries as
\* they were.
C21_UninitializedRejected ==
    [][(~initd /\ last'.op \in {"setPWM", "setPin", "getMotor", "getStepper"})
          => /\ last'.op \in {"setPWM", "setPin"}
                    => last'.ret = FALSE /\ last'.arg.tries = 0
             /\ last'.op \in {"getMotor", "getStepper"} => last'.ret = "NULL"
             /\ UNCHANGED BoardState]_vars

\* C21 witness: a board that had handed out a DC motor, then lost its
\* initialization to a begin() that returned false, has refused a channel
\* write.
C21_Witness ==
    /\ ~initd
    /\ Len(lib_dcmotors) > 0
    /\ last.op = "setPWM"
    /\ last.ret = FALSE

\* C22: on an initialized board getMotor(n) returns null for every n outside
\* 1..4 and getStepper returns null for every port outside 1..2, 0
\* included, and such a call leaves the motor slots and the registries as
\* they were.
C22_AsStated ==
    [][/\ (initd /\ last'.op = "getMotor" /\ last'.arg \notin 1 .. 4)
             => last'.ret = "NULL" /\ UNCHANGED <<dcmotors, lib_dcmotors>>
       /\ (initd /\ last'.op = "getStepper" /\ last'.arg \notin 1 .. 2)
             => last'.ret = "NULL" /\ UNCHANGED <<steppers, lib_steppers>>]_vars

\* C22 witness: getStepper with port 0 has returned a pointer to no slot,
\* and the pointer is on the registry.
C22_Witness ==
    /\ initd
    /\ last.op = "getStepper"
    /\ last.arg = 0
    /\ last.ret = "wild"
    /\ Len(lib_steppers) > 0
    /\ lib_steppers[Len(lib_steppers)] \notin Slots

\* The register pair a direct call asks for: (0, value) up to 4095 and
\* (4096, 0) above for setPWM; (0, 0) and (4096, 0) for setPin.
Asked(op, value) ==
    IF op = "setPWM" THEN (IF value > 4095 THEN <<4096, 0>> ELSE <<0, value>>)
    ELSE (IF value THEN <<4096, 0>> ELSE <<0, 0>>)

\* A register access on bus b gets through: the fault ahead, if any, is
\* shorter than the retry budget.
GetsThrough(b) == b.skip > 0 \/ b.fail < Retries

\* C23: on an initialized board setPWM(pin, value) and setPin make one
\* channel write, of (0, value) for value in 0..4095, (4096, 0) for a larger
\* value, (0, 0) for low and (4096, 0) for high; the call returns whether
\* that write got through, and the other channels keep their registers.
C23_ChannelWrite ==
    [][(initd /\ last'.op \in {"setPWM", "setPin"})
          => /\ last'.ret = GetsThrough(bus)
             /\ chan' = IF last'.ret
                        THEN [c \in Channels |->
                                 IF c = last'.arg.pin
                                 THEN Asked(last'.op, last'.arg.value)
                                 ELSE chan[c]]
                        ELSE chan]_vars

\* C23 witness: setPWM with a value above 4095 has switched a channel fully
\* on at the last attempt the retry budget allows.
C23_Witness ==
    /\ initd
    /\ last.op = "setPWM"
    /\ last.arg.value > 4095
    /\ last.arg.tries = Retries
    /\ last.ret = TRUE
    /\ chan[last.arg.pin] = HIGH

\* The transfers that fail in a row at the head of bus b.
FailuresAhead(b) == IF b.skip > 0 THEN 0 ELSE b.fail

\* What a register access does when it stops at its first success and gives
\* up after Retries failures: the attempts it makes and the bus it leaves.
AttemptsOn(b) ==
    IF FailuresAhead(b) < Retries THEN FailuresAhead(b) + 1 ELSE Retries

BusAfter(b) ==
    IF b.skip > 0 THEN [b EXCEPT !.skip = b.skip - 1]
    ELSE IF b.fail < Retries THEN [b EXCEPT !.fail = 0]
    ELSE [b EXCEPT !.fail = b.fail - Retries]

\* C24: every register access (the channel write of setPWM and setPin, the
\* write8 of reset() and the read8 of setPWMFreq inside begin()) makes at
\* least one and at most 10 transfer attempts, makes none after the first
\* one that succeeds, and reports failure exactly when all 10 failed.
C24_BoundedRetry ==
    [][/\ (initd /\ last'.op \in {"setPWM", "setPin"})
             => /\ last'.arg.tries = AttemptsOn(bus)
                /\ last'.arg.tries \in 1 .. Retries
                /\ last'.ret = FALSE <=> FailuresAhead(bus) >= Retries
                /\ bus' = BusAfter(bus)
       /\ last'.op = "begin"
             => /\ last'.arg.reset = AttemptsOn(bus)
                /\ last'.arg.read = AttemptsOn(BusAfter(bus))
                /\ last'.arg.reset \in 1 .. Retries
                /\ last'.arg.read \in 1 .. Retries
                /\ "reset" \in last'.arg.regs <=> FailuresAhead(bus) >= Retries
                /\ "read" \in last'.arg.regs
                       <=> FailuresAhead(BusAfter(bus)) >= Retries]_vars

\* C24 witness: a channel write has been given up after 10 failed attempts
\* with the fault still on the bus.
C24_Witness ==
    /\ initd
    /\ last.op \in {"setPWM", "setPin"}
    /\ last.arg.tries = Retries
    /\ last.ret = FALSE
    /\ bus.fail > 0

\* C25: begin() returns true exactly when every access it made succeeded
\* (the reset write, the read of MODE1, the four writes of the frequency
\* set-up and the 16 channel clears), and initd is the value it returned.
C25_AsStated ==
    last.op = "begin"
        => /\ last.ret = TRUE <=> (last.arg.regs = {} /\ last.arg.chans = {})
           /\ initd = last.ret

\* C25 witness: begin() has returned true and left the board initialized
\* although the prescaler write failed after all its retries.
C25_Witness ==
    /\ last.op = "begin"
    /\ last.ret = TRUE
    /\ initd
    /\ "prescale" \in last.arg.regs

(***************************************************************************)
(* Properties of the phase over all calls                                  *)
(***************************************************************************)
\* C29: after any sequence of calls the phase of every stepper handed out
\* lies in [0, 4M) for the divisor M configured at that moment, also right
\* after setStep has switched to a smaller divisor.
C29_AsStated ==
    \A s \in Slots :
        steppers[s].initd
            => /\ steppers[s].currentstep >= 0
               /\ steppers[s].currentstep < 4 * steppers[s].microsteps

\* C29 witness: setStep has succeeded and the phase it left is outside the
\* cycle of the new divisor.
C29_Witness ==
    /\ last.op = "setStep"
    /\ last.ret = TRUE
    /\ LastPhase >= 4 * LastM

\* C30 as stated: after a SINGLE onestep from any phase in [0, 4M) the
\* phase is a multiple of M.
C30_AsStated ==
    (last.op = "onestep" /\ last.style = "SINGLE" /\ last.from < 4 * LastM)
        => LastPhase % LastM = 0

\* C30 as amended: after a SINGLE onestep from any phase in [0, 4M) the
\* half-step index of the phase is even, so the latch is a single-coil
\* pattern; the phase is a multiple of M when the step started from a
\* multiple of M/2, which SINGLE, DOUBLE and INTERLEAVE steps leave.
C30_SingleLandsInQuadrant ==
    (last.op = "onestep" /\ last.style = "SINGLE" /\ last.from < 4 * LastM)
        => /\ (LastPhase \div (LastM \div 2)) % 2 = 0
           /\ last.from % (LastM \div 2) = 0 => LastPhase % LastM = 0

\* C30 witness: a SINGLE step from a halfway point has landed on a quadrant
\* boundary.
C30_Witness ==
    /\ last.op = "onestep"
    /\ last.style = "SINGLE"
    /\ last.from < 4 * LastM
    /\ last.from % LastM = LastM \div 2
    /\ LastPhase % LastM = 0

(***************************************************************************)
(* Properties of the callback and of the termination signal                *)
(***************************************************************************)
\* Thread t ends its sequence in this step: destroy_clk and the return.
Returning(t) == jobs[t].pc = "destroy" /\ jobs'[t].pc = "idle"

\* The sequence of thread t has run all its ticks and was not cancelled.
RanToEnd(t) == jobs[t].steps = 0 /\ ~steppers[jobs[t].slot].stop

\* The tick of this step has invoked the callback of thread t.
Invoked(t) == last'.op = "tick" /\ jobs'[t].cbdata # jobs[t].cbdata

\* C27: with a callback and no cancellation a blocking sequence of N steps
\* invokes the callback N times in every style, so that the counter that
\* started at N reads 0 when step() returns; and the callback is never
\* invoked while moving is false.
C27_AsStated ==
    [][\A t \in Threads :
          /\ (Returning(t) /\ jobs[t].cb /\ jobs[t].blocking /\ RanToEnd(t))
                 => jobs[t].cbdata = 0
          /\ Invoked(t) => steppers'[jobs[t].slot].moving]_vars

\* C27 witness: a blocking SINGLE sequence with a callback has run all its
\* ticks uncancelled, is about to return, and the counter reads 1.
C27_Witness ==
    \E t \in Threads :
        /\ jobs[t].pc = "destroy"
        /\ jobs[t].cb
        /\ jobs[t].blocking
        /\ jobs[t].style = "SINGLE"
        /\ RanToEnd(t)
        /\ jobs[t].cbdata = 1

\* C28: when the signal handler has run, every registered DC motor's PWM
\* channel holds 0 and every registered stepper that is in a step sequence
\* has its cancellation flag set.
C28_AsStated ==
    (last.op = "signal" /\ last.ret = "done")
        => /\ \A m \in Registered(lib_dcmotors) : chan[dcmotors[m].PWMpin] = LOW
           /\ \A s \in Registered(lib_steppers) : InFlight(s) => steppers[s].stop

\* C28 witness: the handler has run between the arming of a sequence and
\* its first tick; the DC motor is off, the stepper is not cancelled.
C28_Witness ==
    /\ last.op = "signal"
    /\ \E m \in Registered(lib_dcmotors) : chan[dcmotors[m].PWMpin] = LOW
    /\ \E s \in Registered(lib_steppers) :
          /\ InFlight(s)
          /\ ~steppers[s].moving
          /\ ~steppers[s].stop

(***************************************************************************)
(* Properties of two steppers running at the same time                     *)
(***************************************************************************)
\* The channels a stepper in slot s writes.
StepperPins(s) == {PWMApin(s), AIN2pin(s), AIN1pin(s), PWMBpin(s), BIN2pin(s), BIN1pin(s)}

\* This step changes something of the stepper in slot s: its fields, one
\* of its channels, or the sequence of its thread.
Touched(s) ==
    \/ steppers'[s] # steppers[s]
    \/ \E pin \in StepperPins(s) : chan'[pin] # chan[pin]
    \/ jobs'[ThreadOf(s)] # jobs[ThreadOf(s)]

\* The channels as the stepper in slot s alone would have left them: the
\* channels of the other port at their value after begin().
AloneChan(s) == [c \in Channels |-> IF c \in StepperPins(s) THEN chan[c] ELSE LOW]

\* A tick on slot s that makes a step has the effect on the phase and on
\* the channels of s that it has when the other stepper never ran.
TickAsAlone(s) ==
    LET j == jobs[ThreadOf(s)]
        st == steppers[s]
        alone == OneStepChan(AloneChan(s), initd, s, st, j.dir, j.style)
    IN  (last'.op = "tick" /\ last'.slot = s /\ last'.ret = TRUE)
            => /\ steppers'[s] = [OneStepFields(st, j.dir, j.style)
                                     EXCEPT !.moving = ~(jobs'[ThreadOf(s)].steps = 0
                                                          /\ ~MidMicrostep(j))]
               /\ \A pin \in StepperPins(s) : chan'[pin] = alone[pin]

\* C26: the channel sets of port 1 and port 2 are {8 .. 13} and {2 .. 7},
\* disjoint; every step of a sequence touches the fields, the channels and
\* the sequence of one stepper only, the one it is made on, and a tick has
\* on them the effect it has when that stepper runs alone - so under every
\* interleaving each stepper's phases, channel writes and final phase,
\* moving and stop are those of its run alone.
C26_NoInterference ==
    [][/\ StepperPins(0) = 8 .. 13
       /\ StepperPins(1) = 2 .. 7
       /\ StepperPins(0) \cap StepperPins(1) = {}
       /\ \A s \in Slots :
             /\ (Touched(s) /\ last'.op # "getStepper") => last'.slot = s
             /\ TickAsAlone(s)]_vars

\* C26 witness: the stepper on port 2 is in the middle of a MICROSTEP
\* sequence, and between two of its ticks the stepper on port 1 has made
\* the step of its DOUBLE sequence.
C26_Witness ==
    /\ last.op = "tick"
    /\ last.slot = 0
    /\ last.ret = TRUE
    /\ jobs["t1"].style = "DOUBLE"
    /\ steppers[0].currentstep > 0
    /\ jobs["t2"].style = "MICROSTEP"
    /\ jobs["t2"].steps > 0
    /\ steppers[1].moving
    /\ steppers[1].currentstep > 0

(***************************************************************************)
(* Properties of the divisor, its table and the value onestep returns      *)
(***************************************************************************)
\* C39: after any sequence of getStepper and setStep calls with supported
\* and unsupported arguments, every stepper's divisor is a supported size
\* and its table is the one of that divisor, with M + 1 entries from 0 to
\* full scale; an unsupported request selects 16 and setStep returns true.
C39_DivisorAndTable ==
    /\ \A s \in Slots :
          LET M == steppers[s].microsteps
              curve == CurveOf(steppers[s].microstepcurve)
          IN  /\ M \in SupportedSteps
              /\ steppers[s].microstepcurve = M
              /\ Len(curve) = M + 1
              /\ curve[1] = 0
              /\ curve[M + 1] = 4095
    /\ (last.op = "setStep" /\ last.arg \notin SupportedSteps)
          => (last.ret = TRUE /\ LastM = 16)
    /\ \A ms \in BadSteps : SelectSteps(ms) = 16

\* C39 witness: setStep with an unsupported argument has returned true on
\* a stepper that ran at a larger divisor, and the divisor is 16 now.
C39_Witness ==
    /\ last.op = "setStep"
    /\ last.arg \in BadSteps
    /\ last.ret = TRUE
    /\ LastM = 16
    /\ LastPhase > 64

C31_OddMicrostepsRun ==
    [][/\ (last'.op = "lock" /\ last'.style = "MICROSTEP")
            => jobs'[last'.ret].steps % jobs'[last'.ret].msteps = 0
       /\ (last'.op = "tick" /\ last'.style = "MICROSTEP") =>
             LET s == last'.slot
                 t == TimerOf(s)
                 j == jobs[t]
             IN  /\ MidMicrostep(j) =>
                       /\ jobs'[t].steps = j.steps - 1
                       /\ steppers'[s].currentstep =
                             NextPhase(steppers[s].currentstep, steppers[s].microsteps,
                                       j.dir, j.style)
                       /\ steppers'[s].moving
                       /\ \A u \in Waiters(s) : jobs'[u].pc = "waiting"
                 /\ (~steppers'[s].moving \/ \E u \in Waiters(s) : jobs'[u].pc = "notified")
                       => (j.steps % j.msteps = 0 /\ jobs'[t].steps % j.msteps = 0)]_vars

\* C31 witness: stopMotor() came inside a full step of a MICROSTEP
\* sequence; the ticks went on to the boundary and the tick there has ended
\* the sequence with whole steps left to do.
C31_Witness ==
    /\ last.op = "tick"
    /\ last.style = "MICROSTEP"
    /\ last.ret = FALSE
    /\ steppers[last.slot].stop
    /\ ~steppers[last.slot].moving
    /\ last.arg > 0
    /\ last.arg % steppers[last.slot].microsteps = 0

(***************************************************************************)
(* Properties of the direction lines while a step is written               *)
(***************************************************************************)
\* Both direction lines of coil A, of coil B, are high in the channels c.
BothHighA(c, s) == c[AIN1pin(s)] = HIGH /\ c[AIN2pin(s)] = HIGH

BothHighB(c, s) == c[BIN1pin(s)] = HIGH /\ c[BIN2pin(s)] = HIGH

\* The channel states the onestep call of this step goes through.
StagesOfStep ==
    LET s == last'.slot
        st == steppers[s]
        p == NextPhase(st.currentstep, st.microsteps, last'.dir, last'.style)
    IN  StepStages(chan, initd, s, Ocr(p, st.microsteps, st.microstepcurve, last'.style),
                   LatchBits(p, st.microsteps, last'.style))

\* C38 as stated: during and after every onestep, at every point of the
\* write sequence AIN2, BIN1, AIN1, BIN2, not both lines of coil A and not
\* both lines of coil B are high.
C38_AsStated ==
    [][last'.op = "onestep" =>
          \A stages \in {StagesOfStep} :
          \A i \in 1 .. 6 : ~BothHighA(stages[i], last'.slot)
                              /\ ~BothHighB(stages[i], last'.slot)]_vars

\* C38 as amended: after every onestep not both lines of a coil are high.
\* Between the writes both lines of coil A are high exactly when AIN1 was
\* high before the call and the new pattern sets AIN2 (written first), and
\* both lines of coil B exactly when BIN2 was high and the new pattern sets
\* BIN1 (written first); the reverse changes write the line going low
\* first.
C38_HighWhenReversedBackwards ==
    [][last'.op = "onestep" =>
          \A stages \in {StagesOfStep} :
          LET s == last'.slot
          IN  /\ chan' = stages[6]
              /\ ~BothHighA(chan', s) /\ ~BothHighB(chan', s)
              /\ (\E i \in 1 .. 6 : BothHighA(stages[i], s))
                    <=> (chan[AIN1pin(s)] = HIGH /\ chan'[AIN2pin(s)] = HIGH)
              /\ (\E i \in 1 .. 6 : BothHighB(stages[i], s))
                    <=> (chan[BIN2pin(s)] = HIGH /\ chan'[BIN1pin(s)] = HIGH)]_vars

\* C38 witness: a DOUBLE step forward has taken coil A from AIN1 to AIN2,
\* and the lines are one high, one low now.
C38_Witness ==
    /\ last.op = "onestep"
    /\ last.style = "DOUBLE"
    /\ last.dir = "FORWARD"
    /\ LastPhase \div (LastM \div 2) = 7
    /\ last.from \div (LastM \div 2) = 5
    /\ chan[AIN2pin(last.slot)] = HIGH
    /\ chan[AIN1pin(last.slot)] = LOW

(***************************************************************************)
(* Properties of the direction lines of a DC motor                         *)
(***************************************************************************)
\* Both direction lines of the DC motor in slot m are high in the channels c.
BothHighDC(c, m) == c[dcmotors[m].IN1pin] = HIGH /\ c[dcmotors[m].IN2pin] = HIGH

\* C37: on an initialized board with succeeding writes, after any sequence
\* of run commands the lines IN1 and IN2 of a DC motor are never both high,
\* neither after a command nor between its two pin writes, and run(BRAKE)
\* makes no write.
C37_NeverBothHigh ==
    /\ \A m \in DCSlots : dcmotors[m].initd => ~BothHighDC(chan, m)
    /\ last.op = "run"
          => /\ ~BothHighDC(last.arg.mid, last.slot)
             /\ last.dir = "BRAKE" => (last.arg.tries = 0 /\ last.arg.mid = chan)
             /\ last.dir # "BRAKE" => last.arg.tries = 2

\* C37 witness: run(BACKWARD) has made its two writes: between them both
\* lines were low, and IN2 alone is high now.
C37_Witness ==
    /\ last.op = "run"
    /\ last.dir = "BACKWARD"
    /\ last.arg.mid[dcmotors[last.slot].IN1pin] = LOW
    /\ last.arg.mid[dcmotors[last.slot].IN2pin] = LOW
    /\ last.arg.mid # chan
    /\ chan[dcmotors[last.slot].IN2pin] = HIGH
    /\ chan[dcmotors[last.slot].IN1pin] = LOW

(***************************************************************************)
(* Properties of channel numbers outside 0 .. 15                           *)
(***************************************************************************)
\* The first registers of the 16 channels' blocks: LED0_ON_L to LED15_ON_L.
ChannelRegs == {6 + 4 * c : c \in Channels}

\* PCA9685_PRESCALE
PrescaleReg == 254

\* C34: on an initialized board setPWM(pin, value) and setPin(pin, level)
\* with a channel number outside 0 .. 15 return false and make no transfer,
\* and a channel operation addresses no register outside the 16 channels'
\* blocks.
C34_AsStated ==
    (initd /\ last.op \in {"setPWM", "setPin"})
        => /\ last.arg.pin \notin Channels => (last.ret = FALSE /\ last.arg.tries = 0)
           /\ last.arg.tries > 0 => last.arg.reg \in ChannelRegs

\* C34 witness: setPWM on channel number 62 of an initialized board has
\* returned true after a transfer addressed to the prescale register, and
\* no channel has changed from its cleared state.
C34_Witness ==
    /\ initd
    /\ last.op = "setPWM"
    /\ last.arg.pin = 62
    /\ last.ret = TRUE
    /\ last.arg.tries = 1
    /\ last.arg.reg = PrescaleReg
    /\ \A c \in Channels : chan[c] = LOW

(***************************************************************************)
(* Properties of the registry                                              *)
(***************************************************************************)
\* No entry of the list occurs twice.
NoDuplicates(lib) == \A i, k \in 1 .. Len(lib) : lib[i] = lib[k] => i = k

\* C35: after any sequence of getMotor and getStepper calls, repeated
\* calls for one port included, and the destruction of the board, the
\* registry holds the motors of the live board, each at most once, and no
\* entry for a slot of the board once its destructor has run.
C35_AsStated ==
    /\ NoDuplicates(lib_dcmotors)
    /\ NoDuplicates(lib_steppers)
    /\ last.op = "destructor" => (lib_dcmotors = << >> /\ lib_steppers = << >>)

\* C35 witness: the destructor has run after two getStepper calls for the
\* same port, and the registry still holds an entry for that stepper.
C35_Witness ==
    /\ last.op = "destructor"
    /\ Len(lib_steppers) = 1
    /\ lib_dcmotors = << >>

(***************************************************************************)
(* Properties of the termination hook                                      *)
(***************************************************************************)
\* C36: the signal handler always completes: it makes the stop-all pass
\* once, does not enter itself and does not block on the registry lock for
\* ever, also with two boards constructed with register_sighandler and
\* with the signal delivered to a thread that holds the registry lock.
C36_AsStated ==
    /\ hook.hpc \notin RelockOutcomes
    /\ hook.passes <= 1
    /\ hook.old # "sighandler"

\* C36 witness: the signal came to a thread inside getMotor, and the
\* handler is blocked on the lock that thread owns.
C36_Witness ==
    /\ hook.hpc = "stuck"
    /\ hook.hooked = 1
    /\ hook.lock = hook.hthr
    /\ hook.pend[hook.hthr].op = "getMotor"

(***************************************************************************)
(* Termination of step sequences                                           *)
(***************************************************************************)
\* Thread t polls a tick counter that no tick will change: the wait has
\* timed out, ticks remain, the sequence is cancelled and the counter is
\* on a step boundary, so every tick skips the decrement; stop is cleared
\* only under the lock that t holds.
PollsForever(t) ==
    LET j == jobs[t] IN
    /\ j.pc = "poll"
    /\ j.steps > 0
    /\ ~MidMicrostep(j)
    /\ steppers[j.slot].stop
    /\ steppers[j.slot].cs = t

\* C32 as stated: under fair scheduling of timer ticks and threads every
\* step sequence, blocking or on a worker, eventually tears down its timer
\* and returns, when the ticks are exhausted and when stopMotor() cancels
\* it, also when the cancellation arrives after the wait has timed out or
\* its notification precedes the wait.
C32_AsStated == \A t \in LiveThreads : (jobs[t].pc # "idle") ~> (jobs[t].pc = "idle")

\* C32 witness: a blocking sequence was cancelled after its wait had timed
\* out; its thread polls with ticks left, the motor standing and the
\* channel mutex held.
C32_Witness ==
    /\ PollsForever("t1")
    /\ jobs["t1"].blocking
    /\ ~steppers[jobs["t1"].slot].moving
    /\ last.op = "tick"
    /\ last.ret = FALSE

(***************************************************************************)
(* Two step() calls on one channel                                         *)
(***************************************************************************)
\* The threads whose timer on slot s exists.
TimersOn(s) == {t \in Threads : Armed(t) /\ jobs[t].slot = s}

\* C33 as stated: at most one armed timer advances a channel's phase at
\* any time; a step() called while an earlier sequence on the channel is
\* in flight neither arms its timer nor clears the cancellation flag before
\* the first has finished and disarmed.
C33_AsStated ==
    /\ \A s \in Slots : Cardinality(TimersOn(s)) <= 1
    /\ (last.op = "lock") => \A t \in Threads \ {last.ret} :
          ~(Armed(t) /\ jobs[t].slot = last.slot)

\* C33 witness: two timers are armed on one channel; one has made its
\* tick and moved the phase while the other sequence, whose thread waits
\* on the condition variable, has ticks left.
C33_Witness ==
    \E t, u \in Threads :
        /\ t # u
        /\ {t, u} \subseteq TimersOn(jobs[t].slot)
        /\ jobs[u].pc = "waiting"
        /\ jobs[u].steps > 0
        /\ jobs[t].steps = 0
        /\ last.op = "tick"
        /\ last.ret = TRUE

====
